---- MODULE Spec2Model ----
(***************************************************************************)
(* Model of the cross-artifact contract validator                          *)
(* (skills/qa-engineer/scripts/validate_integration.py), specification     *)
(* Spec, and of the QA runner (skills/qa-engineer/scripts/run_full_qa.py), *)
(* specification QaSpec.                                                   *)
(*                                                                         *)
(* File contents are TLA+ strings and every regular expression of the      *)
(* source is modelled by a matcher over the characters of the string, so   *)
(* extraction, normalisation and comparison are computed as the code       *)
(* computes them.  Python dicts are sequences of entries with the dict's   *)
(* assignment rule (an existing key keeps its position, its value is       *)
(* replaced; a new key is appended).                                       *)
(***************************************************************************)
EXTENDS Integers, Sequences, FiniteSets, TLC

VARIABLES
    tree,            \* the project tree on disk (the input of the run)
    contracts_dir,   \* IntegrationValidator.contracts_dir ("None" when not found)
    pc,              \* position of main / validate_all
    issues,          \* IntegrationValidator.issues
    db_tables,       \* IntegrationValidator.db_tables
    ts_interfaces,   \* IntegrationValidator.ts_interfaces
    api_endpoints,   \* IntegrationValidator.api_endpoints (its keys, in order)
    frontend_calls,  \* IntegrationValidator.frontend_calls
    backend_routes,  \* IntegrationValidator.backend_routes
    report,          \* what _print_report printed
    success,         \* the value validate_all returned ("unset" before)
    exit_status,     \* the status main passed to sys.exit (-1 before)
    args,            \* run_full_qa: the parsed command line (--only, --skip-e2e, --skip-perf)
    project,         \* run_full_qa: the project directory (package.json, coverage report)
    qa_pc,           \* run_full_qa: position of main
    stages_to_run,   \* run_full_qa: main's stages_to_run
    results,         \* run_full_qa: main's results
    commands_run,    \* run_full_qa: the commands run_command has run, in order
    qa_report,       \* run_full_qa: what generate_report printed
    qa_exit_status   \* run_full_qa: the status the process exited with (-1 before)

\* the state of the validator run
validator_vars == <<tree, contracts_dir, pc, issues, db_tables, ts_interfaces,
                    api_endpoints, frontend_calls, backend_routes, report, success,
                    exit_status>>

\* the state of the QA runner
qa_vars == <<args, project, qa_pc, stages_to_run, results, commands_run, qa_report, qa_exit_status>>

vars == <<validator_vars, qa_vars>>

-----------------------------------------------------------------------------
(* Characters and Python's str methods                                     *)

LowerLetters == "abcdefghijklmnopqrstuvwxyz"
UpperLetters == "ABCDEFGHIJKLMNOPQRSTUVWXYZ"
DigitChars == "0123456789"

CharsOf(s) == {SubSeq(s, i, i) : i \in 1..Len(s)}

LowerSet == CharsOf(LowerLetters)
UpperSet == CharsOf(UpperLetters)
LetterSet == LowerSet \cup UpperSet

Ch(s, i) == IF i >= 1 /\ i <= Len(s) THEN SubSeq(s, i, i) ELSE ""

\* \w of Python's re (ASCII part)
WordChars == LetterSet \cup CharsOf(DigitChars) \cup {"_"}

\* \s of Python's re, and what str.strip() removes
SpaceChars == {" ", "\t", "\n", "\r"}

\* the backquote character that delimits a JavaScript template literal
Backtick == SubSeq("`'", 1, 1)

\* the quote class of the scan patterns: single, double and back quote
QuoteChars == {"'", "\"", Backtick}

\* [a-f0-9-] of the UUID pattern
HexDashChars == CharsOf("abcdef") \cup CharsOf(DigitChars) \cup {"-"}

IndexIn(alphabet, c) == CHOOSE i \in 1..Len(alphabet) : SubSeq(alphabet, i, i) = c

ToUpperMap == [c \in LowerSet |-> SubSeq(UpperLetters, IndexIn(LowerLetters, c), IndexIn(LowerLetters, c))]
ToLowerMap == [c \in UpperSet |-> SubSeq(LowerLetters, IndexIn(UpperLetters, c), IndexIn(UpperLetters, c))]

UpperChar(c) == IF c \in LowerSet THEN ToUpperMap[c] ELSE c

LowerChar(c) == IF c \in UpperSet THEN ToLowerMap[c] ELSE c

RECURSIVE UpperFrom(_, _)
UpperFrom(s, i) ==
    IF i > Len(s) THEN "" ELSE UpperChar(Ch(s, i)) \o UpperFrom(s, i + 1)

\* str.upper()
Upper(s) == UpperFrom(s, 1)

\* str.startswith(lit), from position i
StartsWithAt(s, i, lit) ==
    /\ i + Len(lit) - 1 <= Len(s)
    /\ SubSeq(s, i, i + Len(lit) - 1) = lit

\* a literal under re.IGNORECASE
StartsWithAtI(s, i, lit) ==
    /\ i + Len(lit) - 1 <= Len(s)
    /\ UpperChar(SubSeq(s, i, i)) = UpperChar(SubSeq(lit, 1, 1))
    /\ Upper(SubSeq(s, i, i + Len(lit) - 1)) = Upper(lit)

startswith(s, lit) == StartsWithAt(s, 1, lit)

\* the least element of a set of positions, 0 for the empty set
MinPos(ps) == IF ps = {} THEN 0 ELSE CHOOSE j \in ps : \A k \in ps : j <= k

\* the greatest element of a set of positions, 0 for the empty set
MaxPos(ps) == IF ps = {} THEN 0 ELSE CHOOSE j \in ps : \A k \in ps : j >= k

\* the first position >= i of s that holds no character of cs (Len(s)+1 if
\* none): the end of a greedy character-class repetition cs*
SpanEnd(s, i, cs) ==
    LET stop == MinPos({j \in i..Len(s) : Ch(s, j) \notin cs})
    IN  IF stop = 0 THEN (IF i > Len(s) THEN i ELSE Len(s) + 1) ELSE stop

\* the first position >= i of s that holds a character of cs (Len(s)+1 if
\* none): the end of a greedy negated class [^cs]*
SpanEndNot(s, i, cs) ==
    LET stop == MinPos({j \in i..Len(s) : Ch(s, j) \in cs})
    IN  IF stop = 0 THEN (IF i > Len(s) THEN i ELSE Len(s) + 1) ELSE stop

\* the first position >= i where lit occurs in s, 0 if nowhere (str.find)
FindFrom(s, i, lit) == MinPos({j \in i..Len(s) : StartsWithAt(s, j, lit)})

\* lit in s
Contains(s, lit) == FindFrom(s, 1, lit) # 0

\* str.strip()
strip(s) ==
    LET a == SpanEnd(s, 1, SpaceChars)
        b == MaxPos({j \in 1..Len(s) : Ch(s, j) \notin SpaceChars})
    IN  IF a > b THEN "" ELSE SubSeq(s, a, b)

\* str.rstrip(c) for a one-character c
rstrip(s, c) == SubSeq(s, 1, MaxPos({j \in 1..Len(s) : Ch(s, j) # c}))

\* str.split(sep) for a one-character sep
RECURSIVE SplitFrom(_, _, _)
SplitFrom(s, i, sep) ==
    LET j == FindFrom(s, i, sep)
    IN  IF j = 0 THEN <<SubSeq(s, i, Len(s))>>
        ELSE <<SubSeq(s, i, j - 1)>> \o SplitFrom(s, j + 1, sep)

split(s, sep) == SplitFrom(s, 1, sep)

\* str.title(): a letter that follows a non-letter is upper-cased, a letter
\* that follows a letter is lower-cased
RECURSIVE TitleFrom(_, _)
TitleFrom(s, i) ==
    IF i > Len(s) THEN ""
    ELSE LET c == Ch(s, i)
             afterLetter == i > 1 /\ Ch(s, i - 1) \in LetterSet
         IN  (IF afterLetter THEN LowerChar(c) ELSE UpperChar(c)) \o TitleFrom(s, i + 1)

title(s) == TitleFrom(s, 1)

RECURSIVE JoinFrom(_, _)
JoinFrom(parts, i) == IF i > Len(parts) THEN "" ELSE parts[i] \o JoinFrom(parts, i + 1)

\* the join of parts with the empty separator
join(parts) == JoinFrom(parts, 1)

-----------------------------------------------------------------------------
(* Python dict as a sequence of [key, value] entries                       *)

DictHas(d, k) == \E i \in 1..Len(d) : d[i].key = k

DictGet(d, k) == d[CHOOSE i \in 1..Len(d) : d[i].key = k].value

\* d[k] = v
DictSet(d, k, v) ==
    IF DictHas(d, k)
    THEN [i \in 1..Len(d) |-> IF d[i].key = k THEN [key |-> k, value |-> v] ELSE d[i]]
    ELSE Append(d, [key |-> k, value |-> v])

DictKeys(d) == [i \in 1..Len(d) |-> d[i].key]

NoMatch == [ok |-> FALSE]

-----------------------------------------------------------------------------
(* Schema extractor: _parse_database_sql                                   *)

\* One match of table_pattern at position i:
\*   CREATE TABLE (?:public\.)?(\w+)\s*\(([\s\S]*?)\);     (re.IGNORECASE)
\* The lazy body runs to the first ");" after the opening parenthesis.
TableMatchAt(s, i) ==
    IF ~StartsWithAtI(s, i, "CREATE TABLE ") THEN NoMatch
    ELSE LET a == i + Len("CREATE TABLE ")
             b == IF StartsWithAtI(s, a, "public.") THEN a + Len("public.") ELSE a
             c == SpanEnd(s, b, WordChars)
             d == SpanEnd(s, c, SpaceChars)
             e == FindFrom(s, d + 1, ");")
         IN  IF c = b \/ Ch(s, d) # "(" \/ e = 0 THEN NoMatch
             ELSE [ok |-> TRUE, end |-> e + 1,
                   g1 |-> SubSeq(s, b, c - 1), g2 |-> SubSeq(s, d + 1, e - 1)]

\* re.finditer(table_pattern, content): the non-overlapping matches, left to right
RECURSIVE TableMatchesFrom(_, _, _)
TableMatchesFrom(s, starts, i) ==
    LET j == MinPos({q \in starts : q >= i})
    IN  IF j = 0 THEN <<>>
        ELSE <<TableMatchAt(s, j)>> \o TableMatchesFrom(s, starts, TableMatchAt(s, j).end + 1)

TableMatches(s) == TableMatchesFrom(s, {q \in 1..Len(s) : TableMatchAt(s, q).ok}, 1)

\* the lines of a column block that the parser skips
IsSkippedSqlLine(line) ==
    \/ line = ""
    \/ startswith(line, "--")
    \/ startswith(line, "PRIMARY KEY")
    \/ startswith(line, "FOREIGN KEY")
    \/ startswith(line, "CHECK")
    \/ startswith(line, "CONSTRAINT")

\* re.match(r'(\w+)\s+(\w+)', line)
ColMatch(line) ==
    LET a == SpanEnd(line, 1, WordChars)
        b == SpanEnd(line, a, SpaceChars)
        c == SpanEnd(line, b, WordChars)
    IN  IF a = 1 \/ b = a \/ c = b THEN NoMatch
        ELSE [ok |-> TRUE, g1 |-> SubSeq(line, 1, a - 1), g2 |-> SubSeq(line, b, c - 1)]

\* the inner loop over columns_block.split(newline): the columns dict
RECURSIVE ParseColumns(_, _, _)
ParseColumns(lines, k, columns) ==
    IF k > Len(lines) THEN columns
    ELSE LET line == strip(lines[k])
             m == ColMatch(line)
         IN  IF IsSkippedSqlLine(line) \/ ~m.ok
             THEN ParseColumns(lines, k + 1, columns)
             ELSE ParseColumns(lines, k + 1,
                      DictSet(columns, m.g1,
                              [type |-> Upper(m.g2),
                               nullable |-> ~Contains(Upper(line), "NOT NULL")]))

\* the outer loop: self.db_tables[table_name] = columns for every match
RECURSIVE StoreTables(_, _, _)
StoreTables(ms, k, tables) ==
    IF k > Len(ms) THEN tables
    ELSE StoreTables(ms, k + 1,
             DictSet(tables, ms[k].g1, ParseColumns(split(ms[k].g2, "\n"), 1, <<>>)))

\* db_tables after _parse_database_sql has read content
parse_database_sql(content, tables) == StoreTables(TableMatches(content), 1, tables)

-----------------------------------------------------------------------------
(* Interface extractor: _parse_types_ts                                    *)

\* One match of interface_pattern at position i:
\*   (?:export\s+)?interface\s+(\w+)\s*\{([^}]+)\}
InterfaceMatchAt(s, i) ==
    LET x == SpanEnd(s, i + Len("export"), SpaceChars)
        p == IF StartsWithAt(s, i, "export") /\ x > i + Len("export") THEN x ELSE i
        a == p + Len("interface")
        b == SpanEnd(s, a, SpaceChars)
        c == SpanEnd(s, b, WordChars)
        d == SpanEnd(s, c, SpaceChars)
        e == SpanEndNot(s, d + 1, {"}"})
    IN  IF \/ ~StartsWithAt(s, p, "interface")
           \/ b = a \/ c = b
           \/ Ch(s, d) # "{"
           \/ e = d + 1 \/ e > Len(s)
        THEN NoMatch
        ELSE [ok |-> TRUE, end |-> e,
              g1 |-> SubSeq(s, b, c - 1), g2 |-> SubSeq(s, d + 1, e - 1)]

\* re.finditer(interface_pattern, content)
RECURSIVE InterfaceMatchesFrom(_, _, _)
InterfaceMatchesFrom(s, starts, i) ==
    LET j == MinPos({q \in starts : q >= i})
    IN  IF j = 0 THEN <<>>
        ELSE <<InterfaceMatchAt(s, j)>> \o InterfaceMatchesFrom(s, starts, InterfaceMatchAt(s, j).end + 1)

InterfaceMatches(s) == InterfaceMatchesFrom(s, {q \in 1..Len(s) : InterfaceMatchAt(s, q).ok}, 1)

\* re.match(r'(\w+)(\?)?:\s*(.+)', line)
FieldMatch(line) ==
    LET a == SpanEnd(line, 1, WordChars)
        q == Ch(line, a) = "?"
        b == IF q THEN a + 1 ELSE a
    IN  IF a = 1 \/ Ch(line, b) # ":" \/ b = Len(line) THEN NoMatch
        ELSE [ok |-> TRUE, g1 |-> SubSeq(line, 1, a - 1), g2 |-> q,
              g3 |-> SubSeq(line, b + 1, Len(line))]

\* the inner loop over fields_block.split(newline): the fields dict
RECURSIVE ParseFields(_, _, _)
ParseFields(lines, k, fields) ==
    IF k > Len(lines) THEN fields
    ELSE LET line == rstrip(rstrip(strip(lines[k]), ";"), ",")
             m == FieldMatch(line)
         IN  IF line = "" \/ startswith(line, "//") \/ ~m.ok
             THEN ParseFields(lines, k + 1, fields)
             ELSE ParseFields(lines, k + 1,
                      DictSet(fields, m.g1,
                              [type |-> strip(m.g3), optional |-> m.g2]))

\* the outer loop: self.ts_interfaces[interface_name] = fields for every match
RECURSIVE StoreInterfaces(_, _, _)
StoreInterfaces(ms, k, interfaces) ==
    IF k > Len(ms) THEN interfaces
    ELSE StoreInterfaces(ms, k + 1,
             DictSet(interfaces, ms[k].g1, ParseFields(split(ms[k].g2, "\n"), 1, <<>>)))

\* ts_interfaces after _parse_types_ts has read content
parse_types_ts(content, interfaces) ==
    StoreInterfaces(InterfaceMatches(content), 1, interfaces)

-----------------------------------------------------------------------------
(* Endpoint table extractor: _parse_endpoints_ts                           *)

\* One match of endpoint_pattern at position i: a quote, /api, one or more
\* non-quote characters, a quote
EndpointMatchAt(s, i) ==
    LET a == i + 1 + Len("/api")
        e == SpanEndNot(s, a, QuoteChars)
    IN  IF \/ Ch(s, i) \notin QuoteChars
           \/ ~StartsWithAt(s, i + 1, "/api")
           \/ e = a \/ e > Len(s)
        THEN NoMatch
        ELSE [ok |-> TRUE, end |-> e, g1 |-> SubSeq(s, i + 1, e - 1)]

\* re.finditer(endpoint_pattern, content)
RECURSIVE EndpointMatchesFrom(_, _, _)
EndpointMatchesFrom(s, starts, i) ==
    LET j == MinPos({q \in starts : q >= i})
    IN  IF j = 0 THEN <<>>
        ELSE <<EndpointMatchAt(s, j)>> \o EndpointMatchesFrom(s, starts, EndpointMatchAt(s, j).end + 1)

EndpointMatches(s) == EndpointMatchesFrom(s, {q \in 1..Len(s) : EndpointMatchAt(s, q).ok}, 1)

\* re.sub(r'\$\{(\w+)\}', r':\1', endpoint), from position i
RECURSIVE NormalizeEndpointFrom(_, _)
NormalizeEndpointFrom(s, i) ==
    IF i > Len(s) THEN ""
    ELSE LET e == SpanEnd(s, i + 2, WordChars)
         IN  IF StartsWithAt(s, i, "${") /\ e > i + 2 /\ Ch(s, e) = "}"
             THEN ":" \o SubSeq(s, i + 2, e - 1) \o NormalizeEndpointFrom(s, e + 1)
             ELSE Ch(s, i) \o NormalizeEndpointFrom(s, i + 1)

\* the normalizer of the endpoint table (validate_integration.py line 295)
NormalizeEndpoint(endpoint) == NormalizeEndpointFrom(endpoint, 1)

RECURSIVE StoreEndpoints(_, _, _)
StoreEndpoints(ms, k, endpoints) ==
    IF k > Len(ms) THEN endpoints
    ELSE StoreEndpoints(ms, k + 1,
             DictSet(endpoints, NormalizeEndpoint(ms[k].g1), [defined_in |-> "endpoints.ts"]))

\* api_endpoints after _parse_endpoints_ts has read content
parse_endpoints_ts(content, endpoints) ==
    StoreEndpoints(EndpointMatches(content), 1, endpoints)

-----------------------------------------------------------------------------
(* Source scanner: _scan_frontend_calls, _scan_backend_routes              *)

\* The tail shared by the call and route patterns, from position p:
\* a quote, one or more non-quote characters (the group), a quote
QuotedArgAt(s, p) ==
    LET e == SpanEndNot(s, p + 1, QuoteChars)
    IN  IF Ch(s, p) \notin QuoteChars \/ e = p + 1 \/ e > Len(s) THEN NoMatch
        ELSE [ok |-> TRUE, end |-> e, g |-> SubSeq(s, p + 1, e - 1)]

\* fetch\(QUOTE(...)QUOTE at position i
FetchMatchAt(s, i) ==
    IF StartsWithAt(s, i, "fetch(") THEN QuotedArgAt(s, i + Len("fetch(")) ELSE NoMatch

\* obj\.\w+\(QUOTE(...)QUOTE at position i, for obj = axios and obj = api
MethodCallMatchAt(s, i, obj) ==
    LET a == i + Len(obj) + 1
        b == SpanEnd(s, a, WordChars)
    IN  IF StartsWithAt(s, i, obj \o ".") /\ b > a /\ Ch(s, b) = "("
        THEN QuotedArgAt(s, b + 1)
        ELSE NoMatch

\* ENDPOINTS\.\w+\.(\w+) at position i: the group is the last identifier
EndpointsRefMatchAt(s, i) ==
    LET a == i + Len("ENDPOINTS.")
        b == SpanEnd(s, a, WordChars)
        c == SpanEnd(s, b + 1, WordChars)
    IN  IF StartsWithAt(s, i, "ENDPOINTS.") /\ b > a /\ Ch(s, b) = "." /\ c > b + 1
        THEN [ok |-> TRUE, end |-> c - 1, g |-> SubSeq(s, b + 1, c - 1)]
        ELSE NoMatch

\* the four entries of patterns in _scan_frontend_calls, by index
NumFrontendPatterns == 4

FrontendMatchAt(k, s, i) ==
    CASE k = 1 -> FetchMatchAt(s, i)
      [] k = 2 -> MethodCallMatchAt(s, i, "axios")
      [] k = 3 -> MethodCallMatchAt(s, i, "api")
      [] k = 4 -> EndpointsRefMatchAt(s, i)

\* re.finditer(patterns[k], content) followed by the startswith filter:
\* the calls one pattern appends for one file
RECURSIVE FrontendPatternCallsFrom(_, _, _, _, _)
FrontendPatternCallsFrom(k, s, starts, i, file) ==
    LET j == MinPos({q \in starts : q >= i})
        m == FrontendMatchAt(k, s, j)
    IN  IF j = 0 THEN <<>>
        ELSE (IF startswith(m.g, "/api") \/ startswith(m.g, "http")
              THEN <<[url |-> m.g, file |-> file]>>
              ELSE <<>>) \o FrontendPatternCallsFrom(k, s, starts, m.end + 1, file)

FrontendPatternCalls(k, s, file) ==
    FrontendPatternCallsFrom(k, s, {q \in 1..Len(s) : FrontendMatchAt(k, s, q).ok}, 1, file)

\* _scan_file_for_api_calls: every pattern in turn over the whole file
RECURSIVE ScanFilePatterns(_, _, _)
ScanFilePatterns(k, s, file) ==
    IF k > NumFrontendPatterns THEN <<>>
    ELSE FrontendPatternCalls(k, s, file) \o ScanFilePatterns(k + 1, s, file)

\* lines 328-331: a file that cannot be read contributes nothing
scan_file_for_api_calls(f) ==
    IF ~f.readable THEN <<>> ELSE ScanFilePatterns(1, f.text, f.path)

RouteMethods == <<"get", "post", "put", "patch", "delete">>

\* obj\.(get|post|put|patch|delete)\(QUOTE(...)QUOTE under re.IGNORECASE
RouteMatchAt(s, i, obj) ==
    LET a == i + Len(obj) + 1
        hits == {n \in 1..Len(RouteMethods) : StartsWithAtI(s, a, RouteMethods[n] \o "(")}
    IN  IF ~StartsWithAtI(s, i, obj \o ".") \/ hits = {} THEN NoMatch
        ELSE LET n == CHOOSE h \in hits : TRUE
                 q == QuotedArgAt(s, a + Len(RouteMethods[n]) + 1)
             IN  IF ~q.ok THEN NoMatch
                 ELSE [ok |-> TRUE, end |-> q.end,
                       g1 |-> SubSeq(s, a, a + Len(RouteMethods[n]) - 1), g2 |-> q.g]

\* re.finditer(pattern, content, re.IGNORECASE): the routes one pattern appends
RECURSIVE RoutePatternRoutesFrom(_, _, _, _, _)
RoutePatternRoutesFrom(obj, s, starts, i, file) ==
    LET j == MinPos({q \in starts : q >= i})
        m == RouteMatchAt(s, j, obj)
    IN  IF j = 0 THEN <<>>
        ELSE <<[method |-> Upper(m.g1), path |-> m.g2, file |-> file]>>
             \o RoutePatternRoutesFrom(obj, s, starts, m.end + 1, file)

RoutePatternRoutes(obj, s, file) ==
    RoutePatternRoutesFrom(obj, s, {q \in 1..Len(s) : RouteMatchAt(s, q, obj).ok}, 1, file)

\* _scan_file_for_routes: the router pattern, then the app pattern
\* (a file that cannot be read contributes nothing, lines 367-370)
scan_file_for_routes(f) ==
    IF ~f.readable THEN <<>>
    ELSE RoutePatternRoutes("router", f.text, f.path) \o RoutePatternRoutes("app", f.text, f.path)

\* str.endswith(suffix)
endswith(s, suffix) ==
    Len(s) >= Len(suffix) /\ SubSeq(s, Len(s) - Len(suffix) + 1, Len(s)) = suffix

\* Path.exists() for a path below the project directory
Exists(t, path) ==
    \/ \E d \in t.dirs : d = path \/ startswith(d, path \o "/")
    \/ \E n \in 1..Len(t.files) :
           t.files[n].path = path \/ startswith(t.files[n].path, path \o "/")

\* dir.rglob("*" + suffix): the files below dir, in enumeration order
rglob(t, dir, suffix) ==
    SelectSeq(t.files, LAMBDA f : startswith(f.path, dir \o "/") /\ endswith(f.path, suffix))

FileText(t, path) == t.files[CHOOSE n \in 1..Len(t.files) : t.files[n].path = path].text

\* Path.read_text() returns for the file at path (it raises otherwise)
Readable(t, path) ==
    \E n \in 1..Len(t.files) : t.files[n].path = path /\ t.files[n].readable

\* the permutations of a set of positions
Bijections(S) == {p \in [S -> S] : \A a, b \in S : p[a] = p[b] => a = b}

\* The orders in which the file system can enumerate the files below dirs:
\* rglob yields the directory entries in the order the operating system
\* lists them, which the code does not sort.  A listing is the tree's file
\* sequence with the source files below dirs permuted among their positions.
Listings(t, dirs) ==
    LET pos == {n \in 1..Len(t.files) :
                   /\ \E d \in 1..Len(dirs) : startswith(t.files[n].path, dirs[d] \o "/")
                   /\ endswith(t.files[n].path, ".ts") \/ endswith(t.files[n].path, ".tsx")}
    IN  {[n \in 1..Len(t.files) |-> IF n \in pos THEN t.files[p[n]] ELSE t.files[n]] :
            p \in Bijections(pos)}

RECURSIVE FlatMapCalls(_, _)
FlatMapCalls(fs, n) ==
    IF n > Len(fs) THEN <<>> ELSE scan_file_for_api_calls(fs[n]) \o FlatMapCalls(fs, n + 1)

RECURSIVE FlatMapRoutes(_, _)
FlatMapRoutes(fs, n) ==
    IF n > Len(fs) THEN <<>> ELSE scan_file_for_routes(fs[n]) \o FlatMapRoutes(fs, n + 1)

frontend_dirs == <<"apps/web/src", "src", "frontend/src">>

backend_dirs == <<"apps/server/src", "server/src", "backend/src", "src/routes">>

\* what _scan_frontend_calls appends to frontend_calls
RECURSIVE ScanFrontendDirs(_, _)
ScanFrontendDirs(t, n) ==
    IF n > Len(frontend_dirs) THEN <<>>
    ELSE (IF ~Exists(t, frontend_dirs[n]) THEN <<>>
          ELSE FlatMapCalls(rglob(t, frontend_dirs[n], ".ts"), 1)
               \o FlatMapCalls(rglob(t, frontend_dirs[n], ".tsx"), 1))
         \o ScanFrontendDirs(t, n + 1)

\* what _scan_backend_routes appends to backend_routes
RECURSIVE ScanBackendDirs(_, _)
ScanBackendDirs(t, n) ==
    IF n > Len(backend_dirs) THEN <<>>
    ELSE (IF ~Exists(t, backend_dirs[n]) THEN <<>>
          ELSE FlatMapRoutes(rglob(t, backend_dirs[n], ".ts"), 1))
         \o ScanBackendDirs(t, n + 1)

-----------------------------------------------------------------------------
(* Reconciler: _compare_db_to_ts                                           *)

\* an issue constructor that gives every issue the severity ERROR
IssueAlwaysError(sev, cat, msg, f, sugg) ==
    [severity |-> "ERROR", category |-> cat, message |-> msg, file |-> f, suggestion |-> sugg]

Issue(sev, cat, msg, f, sugg) ==
    [severity |-> sev, category |-> cat, message |-> msg, file |-> f, suggestion |-> sugg]

\* the table_to_interface dict of _compare_db_to_ts
table_to_interface ==
    << [key |-> "profiles", value |-> "Profile"],
       [key |-> "cvs", value |-> "CV"],
       [key |-> "cv_analyses", value |-> "CVAnalysis"],
       [key |-> "motivation_letters", value |-> "MotivationLetter"],
       [key |-> "interviews", value |-> "Interview"],
       [key |-> "interview_questions", value |-> "InterviewQuestion"] >>

\* _snake_to_camel that title-cases the first component as well
snake_to_camel_pascal(name) ==
    LET components == split(name, "_")
    IN  join([n \in 1..Len(components) |-> title(components[n])])

\* _snake_to_camel
snake_to_camel(name) ==
    LET components == split(name, "_")
    IN  components[1] \o join([n \in 1..(Len(components) - 1) |-> title(components[n + 1])])

\* table_to_interface.get(table_name, table_name.rstrip('s').title())
DefaultInterfaceName(table_name) ==
    IF DictHas(table_to_interface, table_name)
    THEN DictGet(table_to_interface, table_name)
    ELSE title(rstrip(table_name, "s"))

\* a variations list without the camel-joined form
VariationsNoCamel(table_name) ==
    << DefaultInterfaceName(table_name), Upper(DefaultInterfaceName(table_name)) >>

\* the variations list tried when the first name is not an interface
Variations(table_name) ==
    LET interface_name == DefaultInterfaceName(table_name)
        words == split(table_name, "_")
    IN  << interface_name,
           Upper(interface_name),
           rstrip(join([n \in 1..Len(words) |-> title(words[n])]), "s") >>

\* a matching that takes the last declared candidate instead of the first
MatchedInterfaceLast(table_name, interfaces) ==
    LET vs == Variations(table_name)
        hit == MaxPos({n \in 1..Len(vs) : DictHas(interfaces, vs[n])})
    IN  IF hit = 0 THEN "" ELSE vs[hit]

\* the interface name the table is compared with, "" when none is found
MatchedInterface(table_name, interfaces) ==
    LET vs == Variations(table_name)
        hit == MinPos({n \in 1..Len(vs) : DictHas(interfaces, vs[n])})
    IN  IF DictHas(interfaces, DefaultInterfaceName(table_name))
        THEN DefaultInterfaceName(table_name)
        ELSE IF hit = 0 THEN "" ELSE vs[hit]
\* ColumnIssues that looks for the camelCase field before the exact one
ColumnIssuesCamelFirst(table_name, interface_name, ts_fields, col_name) ==
    LET camel_name == snake_to_camel(col_name)
    IN  IF camel_name # col_name /\ DictHas(ts_fields, camel_name)
        THEN << Issue("ERROR", "Field Mismatch",
                      "Case mismatch in '" \o interface_name \o "': database has '"
                          \o col_name \o "', TypeScript has '" \o camel_name \o "'",
                      "None",
                      "Rename '" \o camel_name \o "' to '" \o col_name
                          \o "' in types.ts to match database") >>
        ELSE IF DictHas(ts_fields, col_name) THEN <<>>
        ELSE << Issue("WARNING", "Missing Field",
                      "Column '" \o col_name \o "' in table '" \o table_name
                          \o "' not found in interface '" \o interface_name \o "'",
                      "None",
                      "Add '" \o col_name \o "' field to '" \o interface_name
                          \o "' interface") >>

\* ColumnIssues without the else: a renamed column is also reported missing
ColumnIssuesNoElse(table_name, interface_name, ts_fields, col_name) ==
    LET camel_name == snake_to_camel(col_name)
        mismatch == Issue("ERROR", "Field Mismatch",
                          "Case mismatch in '" \o interface_name \o "': database has '"
                              \o col_name \o "', TypeScript has '" \o camel_name \o "'",
                          "None",
                          "Rename '" \o camel_name \o "' to '" \o col_name
                              \o "' in types.ts to match database")
        missing == Issue("WARNING", "Missing Field",
                         "Column '" \o col_name \o "' in table '" \o table_name
                             \o "' not found in interface '" \o interface_name \o "'",
                         "None",
                         "Add '" \o col_name \o "' field to '" \o interface_name
                             \o "' interface")
    IN  IF DictHas(ts_fields, col_name) THEN <<>>
        ELSE (IF DictHas(ts_fields, camel_name) THEN <<mismatch>> ELSE <<>>) \o <<missing>>

\* the issue one column adds (a sequence of zero or one issue)
ColumnIssues(table_name, interface_name, ts_fields, col_name) ==
    LET camel_name == snake_to_camel(col_name)
    IN  IF DictHas(ts_fields, col_name) THEN <<>>
        ELSE IF DictHas(ts_fields, camel_name)
        THEN << Issue("ERROR", "Field Mismatch",
                      "Case mismatch in '" \o interface_name \o "': database has '"
                          \o col_name \o "', TypeScript has '" \o camel_name \o "'",
                      "None",
                      "Rename '" \o camel_name \o "' to '" \o col_name
                          \o "' in types.ts to match database") >>
        ELSE << Issue("WARNING", "Missing Field",
                      "Column '" \o col_name \o "' in table '" \o table_name
                          \o "' not found in interface '" \o interface_name \o "'",
                      "None",
                      "Add '" \o col_name \o "' field to '" \o interface_name
                          \o "' interface") >>

RECURSIVE ColumnsIssues(_, _, _, _, _)
ColumnsIssues(table_name, interface_name, ts_fields, columns, n) ==
    IF n > Len(columns) THEN <<>>
    ELSE ColumnIssues(table_name, interface_name, ts_fields, columns[n].key)
         \o ColumnsIssues(table_name, interface_name, ts_fields, columns, n + 1)

\* TableIssues that skips a table without interface and says nothing
TableIssuesSilent(table_name, columns, interfaces) ==
    LET interface_name == MatchedInterface(table_name, interfaces)
    IN  IF interface_name = "" THEN <<>>
        ELSE ColumnsIssues(table_name, interface_name,
                           DictGet(interfaces, interface_name), columns, 1)

\* the issues one table adds
TableIssues(table_name, columns, interfaces) ==
    LET interface_name == MatchedInterface(table_name, interfaces)
    IN  IF interface_name = ""
        THEN << Issue("WARNING", "Type Sync",
                      "No TypeScript interface found for table '" \o table_name \o "'",
                      "None",
                      "Create interface '" \o DefaultInterfaceName(table_name)
                          \o "' in types.ts") >>
        ELSE ColumnsIssues(table_name, interface_name,
                           DictGet(interfaces, interface_name), columns, 1)

\* what _compare_db_to_ts appends to issues
RECURSIVE compare_db_to_ts(_, _, _)
compare_db_to_ts(tables, interfaces, n) ==
    IF n > Len(tables) THEN <<>>
    ELSE TableIssues(tables[n].key, tables[n].value, interfaces)
         \o compare_db_to_ts(tables, interfaces, n + 1)

-----------------------------------------------------------------------------
(* Reconciler: _compare_frontend_to_backend                                *)

\* re.sub(r':(\w+)', r'{\1}', path), from position i
RECURSIVE NormalizeBackendFrom(_, _)
NormalizeBackendFrom(s, i) ==
    IF i > Len(s) THEN ""
    ELSE LET e == SpanEnd(s, i + 1, WordChars)
         IN  IF Ch(s, i) = ":" /\ e > i + 1
             THEN "{" \o SubSeq(s, i + 1, e - 1) \o "}" \o NormalizeBackendFrom(s, e)
             ELSE Ch(s, i) \o NormalizeBackendFrom(s, i + 1)

\* a backend normalizer that leaves the named parameters as they are
NormalizeBackendPathIdentity(path) == path

\* the normalizer of backend route paths (line 388)
NormalizeBackendPath(path) == NormalizeBackendFrom(path, 1)

\* re.sub(r'https?://[^/]+', '', url), from position i
RECURSIVE StripHostFrom(_, _)
StripHostFrom(s, i) ==
    IF i > Len(s) THEN ""
    ELSE LET a == IF StartsWithAt(s, i, "https") THEN i + Len("https") ELSE i + Len("http")
             e == SpanEndNot(s, a + Len("://"), {"/"})
         IN  IF StartsWithAt(s, i, "http") /\ StartsWithAt(s, a, "://") /\ e > a + Len("://")
             THEN StripHostFrom(s, e)
             ELSE Ch(s, i) \o StripHostFrom(s, i + 1)

\* re.sub(r'\$\{[^}]+\}', '{id}', path), from position i
RECURSIVE RewriteInterpolationFrom(_, _)
RewriteInterpolationFrom(s, i) ==
    IF i > Len(s) THEN ""
    ELSE LET e == SpanEndNot(s, i + 2, {"}"})
         IN  IF StartsWithAt(s, i, "${") /\ e > i + 2 /\ e <= Len(s)
             THEN "{id}" \o RewriteInterpolationFrom(s, e + 1)
             ELSE Ch(s, i) \o RewriteInterpolationFrom(s, i + 1)

\* the repetition count of the UUID pattern /[a-f0-9-]{36}
UuidLen == 36

\* re.sub(r'/[a-f0-9-]{36}', '/{id}', path), from position i
RECURSIVE RewriteUuidFrom(_, _)
RewriteUuidFrom(s, i) ==
    IF i > Len(s) THEN ""
    ELSE IF Ch(s, i) = "/" /\ SpanEnd(s, i + 1, HexDashChars) >= i + 1 + UuidLen
         THEN "/{id}" \o RewriteUuidFrom(s, i + 1 + UuidLen)
         ELSE Ch(s, i) \o RewriteUuidFrom(s, i + 1)

\* the normalizer of frontend call urls (lines 394-396)
NormalizeFrontendUrl(url) ==
    RewriteUuidFrom(RewriteInterpolationFrom(StripHostFrom(url, 1), 1), 1)
\* backend_paths built from the GET routes only
BackendPathsGetOnly(routes) ==
    {NormalizeBackendPath(routes[n].path) : n \in {k \in 1..Len(routes) : routes[k].method = "GET"}}

\* the set backend_paths built by the first loop
BackendPaths(routes) == {NormalizeBackendPath(routes[n].path) : n \in 1..Len(routes)}

\* IsUnmatched without the look-up in the endpoint table
IsUnmatchedBackendOnly(path, routes, endpoints) ==
    /\ startswith(path, "/api")
    /\ path \notin BackendPaths(routes)

\* the condition under which a call gets a Route Mismatch warning
IsUnmatched(path, routes, endpoints) ==
    /\ startswith(path, "/api")
    /\ path \notin BackendPaths(routes)
    /\ ~DictHas(endpoints, path)

\* what _compare_frontend_to_backend appends to issues
RECURSIVE compare_frontend_to_backend(_, _, _, _)
compare_frontend_to_backend(calls, routes, endpoints, n) ==
    IF n > Len(calls) THEN <<>>
    ELSE LET path == NormalizeFrontendUrl(calls[n].url)
         IN  (IF IsUnmatched(path, routes, endpoints)
              THEN << Issue("WARNING", "Route Mismatch",
                            "Frontend calls '" \o path \o "' but no matching backend route found",
                            calls[n].file,
                            "Add route to backend or fix frontend URL") >>
              ELSE <<>>)
             \o compare_frontend_to_backend(calls, routes, endpoints, n + 1)

-----------------------------------------------------------------------------
(* Artifact locator and the structural check                               *)

\* the candidates list of _find_contracts_dir, relative to the project directory
contracts_candidates ==
    <<"contracts", "packages/shared/src/contracts", "packages/shared/contracts", "src/contracts">>

\* a locator that returns the lowest-ranked existing candidate
find_contracts_dir_last(t) ==
    LET hit == MaxPos({n \in 1..Len(contracts_candidates) : Exists(t, contracts_candidates[n])})
    IN  IF hit = 0 THEN "None" ELSE contracts_candidates[hit]

\* _find_contracts_dir: the first candidate that exists, "None" when none does
find_contracts_dir(t) ==
    LET hit == MinPos({n \in 1..Len(contracts_candidates) : Exists(t, contracts_candidates[n])})
    IN  IF hit = 0 THEN "None" ELSE contracts_candidates[hit]

required_files == <<"database.sql", "types.ts", "endpoints.ts", "validation.ts", "errors.ts">>

RECURSIVE MissingFileIssues(_, _, _)
MissingFileIssues(t, cdir, n) ==
    IF n > Len(required_files) THEN <<>>
    ELSE (IF Exists(t, cdir \o "/" \o required_files[n]) THEN <<>>
          ELSE << Issue("ERROR", "Contracts",
                        "Missing required contract file: " \o required_files[n],
                        cdir,
                        "Create " \o required_files[n] \o " in contracts directory") >>)
         \o MissingFileIssues(t, cdir, n + 1)

\* a structural check that says nothing when there is no contracts directory
check_contract_files_silent(t, cdir) ==
    IF cdir = "None" THEN <<>> ELSE MissingFileIssues(t, cdir, 1)

\* what _check_contract_files appends to issues
check_contract_files(t, cdir) ==
    IF cdir = "None"
    THEN << Issue("ERROR", "Contracts", "No contracts directory found", "None",
                  "Create contracts/ directory with database.sql, types.ts, endpoints.ts, validation.ts, errors.ts") >>
    ELSE MissingFileIssues(t, cdir, 1)

-----------------------------------------------------------------------------
(* Reporter: _print_report and the verdict                                 *)

CountSeverity(is, sev) == Len(SelectSeq(is, LAMBDA i : i.severity = sev))

\* the by_category dict of _print_report: category -> its issues, categories
\* in first-seen order
RECURSIVE GroupByCategory(_, _, _)
GroupByCategory(is, n, by_category) ==
    IF n > Len(is) THEN by_category
    ELSE GroupByCategory(is, n + 1,
             DictSet(by_category, is[n].category,
                     Append(IF DictHas(by_category, is[n].category)
                            THEN DictGet(by_category, is[n].category)
                            ELSE <<>>,
                            is[n])))

RECURSIVE PrintCategories(_, _)
PrintCategories(by_category, n) ==
    IF n > Len(by_category) THEN <<>>
    ELSE <<[kind |-> "category", name |-> by_category[n].key]>>
         \o [k \in 1..Len(by_category[n].value) |->
                [kind |-> "issue", issue |-> by_category[n].value[k]]]
         \o PrintCategories(by_category, n + 1)

\* a report that lists the errors only
print_report_errors_only(is) ==
    IF is = <<>> THEN <<[kind |-> "all_passed"]>>
    ELSE <<[kind |-> "summary", errors |-> CountSeverity(is, "ERROR"),
            warnings |-> CountSeverity(is, "WARNING")]>>
         \o PrintCategories(GroupByCategory(SelectSeq(is, LAMBDA i : i.severity = "ERROR"), 1, <<>>), 1)
         \o <<[kind |-> "verdict", failed |-> CountSeverity(is, "ERROR") # 0]>>

\* what _print_report prints, one record per printed item
print_report(is) ==
    IF is = <<>> THEN <<[kind |-> "all_passed"]>>
    ELSE <<[kind |-> "summary", errors |-> CountSeverity(is, "ERROR"),
            warnings |-> CountSeverity(is, "WARNING")]>>
         \o PrintCategories(GroupByCategory(is, 1, <<>>), 1)
         \o <<[kind |-> "verdict", failed |-> CountSeverity(is, "ERROR") # 0]>>

\* a verdict that fails on any issue, warnings included
VerdictAnyIssue(is) == Len(is) = 0

\* the value validate_all returns: len(errors) == 0
Verdict(is) == CountSeverity(is, "ERROR") = 0

\* the status main passes to sys.exit: 0 if success else 1
ExitCode(ok) == IF ok THEN 0 ELSE 1

-----------------------------------------------------------------------------
(* The project trees the runs start from                                   *)

\* the number of declaration blocks in database.sql and in types.ts
MaxBlocks == 2

\* the number of call statements in the frontend source file
MaxCalls == 2

SqlUsers ==
    "CREATE TABLE users (\n  id UUID PRIMARY KEY,\n  email TEXT NOT NULL,\n  full_name TEXT,\n  created_at TIMESTAMP NOT NULL\n);\n"

\* a second declaration of the same table, with other columns
SqlUsersAgain == "CREATE TABLE users (\n  id UUID,\n  nickname TEXT\n);\n"

\* a declaration whose closing parenthesis is missing
SqlMalformed == "CREATE TABLE sessions (\n  token TEXT NOT NULL,\n  user_id UUID\n\n"

\* a table for which types.ts never declares an interface
SqlOrders == "create table public.orders (\n  id UUID,\n  PRIMARY KEY (id)\n);\n"

SqlBlocks == {SqlUsers, SqlUsersAgain, SqlMalformed, SqlOrders}

TsUserExact ==
    "export interface User {\n  id: string;\n  email: string;\n  full_name?: string;\n  created_at: string;\n}\n"

\* the same interface with camelCase names for the two snake_case columns
TsUserCamel ==
    "export interface User {\n  id: string;\n  email: string;\n  fullName?: string;\n  createdAt: string;\n}\n"

\* an interface that omits columns, renames one and declares one field twice
TsUserPartial ==
    "interface User {\n  id: string;\n  // email is not exposed\n  createdAt: string;\n  id?: number;\n}\n"

TsBlocks == {TsUserExact, TsUserCamel, TsUserPartial}

Uuid == "123e4567-e89b-12d3-a456-426614174000"

CallCvById == "await fetch(" \o Backtick \o "/api/cv/${id}" \o Backtick \o ");\n"
CallUserById == "await fetch(" \o Backtick \o "/api/users/${userId}" \o Backtick \o ");\n"
CallCvUuid == "axios.get('/api/cv/" \o Uuid \o "');\n"
CallApiObject == "api.fetch(\"/api/x\");\n"
CallAbsolute == "fetch(\"http://localhost:3000/api/cv\");\n"
CallPrice == "fetch(" \o Backtick \o "/api/price/$${amount}" \o Backtick \o ");\n"
CallUnknown == "axios.post(\"/api/unknown\", body);\n"
CallEndpointRef == "fetch(ENDPOINTS.cv.list);\n"

CallStmts ==
    {CallCvById, CallUserById, CallCvUuid, CallApiObject, CallAbsolute, CallPrice,
     CallUnknown, CallEndpointRef}

EndpointsCv ==
    "export const ENDPOINTS = {\n  cv: {\n    list: '/api/cv',\n    get: (id) => "
        \o Backtick \o "/api/cv/${id}" \o Backtick \o ",\n  },\n};\n"

EndpointsMisc ==
    "export const ENDPOINTS = { misc: { x: '/api/x', unknown: \"/api/unknown\", user: (userId) => "
        \o Backtick \o "/api/users/${userId}" \o Backtick \o " } };\n"

BackendCv ==
    "router.get(\"/api/cv/:id\", getCv);\nrouter.post('/api/cv', createCv);\napp.get(\"/api/x\", x);\n"

BackendUsers == "router.get('/api/users/:userId', getUser);\nApp.Delete(\"/api/cv/:id\", delCv);\n"

\* all sequences over S of length at most n
SeqsUpTo(S, n) == UNION {[1..k -> S] : k \in 0..n}

\* zero or one file at path, for a text given as a sequence of zero or one text
FileAt(path, texts) ==
    [n \in 1..Len(texts) |-> [path |-> path, text |-> texts[n], readable |-> TRUE]]

FrontendFile == "apps/web/src/api.ts"
BackendFile == "apps/server/src/routes.ts"

\* a project tree: the contract files below cdir, one frontend and one backend file
MakeTree(cdir, db, ts, ep, more, fe, be, only) ==
    [files |-> FileAt(cdir \o "/database.sql", db)
                 \o FileAt(cdir \o "/types.ts", ts)
                 \o FileAt(cdir \o "/endpoints.ts", ep)
                 \o FileAt(cdir \o "/validation.ts", more)
                 \o FileAt(cdir \o "/errors.ts", more)
                 \o FileAt(FrontendFile, fe)
                 \o FileAt(BackendFile, be),
     dirs |-> {},
     contracts_only |-> only]

\* schema and interface declarations vary (one of the two files holds up to
\* MaxBlocks declarations, the other at most one), the routes are fixed
SchemaTrees ==
    {MakeTree("contracts", <<join(db)>>, <<join(ts)>>, <<EndpointsCv>>, <<"">>,
              <<CallCvById>>, <<BackendCv>>, "") :
        db \in SeqsUpTo(SqlBlocks, MaxBlocks), ts \in SeqsUpTo(TsBlocks, 1)}
    \cup
    {MakeTree("contracts", <<join(db)>>, <<join(ts)>>, <<EndpointsCv>>, <<"">>,
              <<CallCvById>>, <<BackendCv>>, "") :
        db \in SeqsUpTo(SqlBlocks, 1), ts \in SeqsUpTo(TsBlocks, MaxBlocks)}

\* the endpoint table and the backend source a route tree is built with
RouteContexts ==
    { <<<<>>, <<>>>>,
      <<<<EndpointsCv>>, <<BackendCv>>>>,
      <<<<EndpointsCv>>, <<>>>>,
      <<<<>>, <<BackendCv>>>>,
      <<<<EndpointsMisc>>, <<BackendUsers>>>> }

\* call sites vary over the contexts, the schema is fixed
RouteTrees ==
    {MakeTree("contracts", <<SqlUsers>>, <<TsUserExact>>, ctx[1], <<"">>, <<join(fe)>>, ctx[2], "") :
        fe \in SeqsUpTo(CallStmts, MaxCalls), ctx \in RouteContexts}

\* the place of the contracts directory and the files present in it vary
LayoutTrees ==
    {MakeTree(cdir, db, ts, <<EndpointsCv>>, more, fe, <<BackendCv>>, only) :
        cdir \in {"contracts", "src/contracts", "schema"},
        db \in {<<>>, <<SqlUsers>>}, ts \in {<<>>, <<TsUserCamel>>},
        more \in {<<>>, <<"">>}, fe \in {<<>>, <<CallUnknown>>},
        only \in {"", "schema"}}

\* two or three frontend files in one directory and two backend files, so
\* that the order in which the directory is enumerated matters
ListingTrees ==
    {[MakeTree("contracts", <<SqlUsers>>, <<TsUserExact>>, <<>>, <<"">>, <<>>, <<>>, "")
         EXCEPT !.files = @ \o FileAt("apps/web/src/a.ts", a)
                            \o FileAt("apps/web/src/b.ts", b)
                            \o FileAt("apps/web/src/c.tsx", c)
                            \o FileAt("apps/server/src/cv.ts", r)
                            \o FileAt("apps/server/src/users.ts", u)] :
        a \in {<<CallUnknown>>}, b \in {<<>>, <<CallCvUuid>>},
        c \in {<<>>, <<CallUserById>>}, r \in {<<>>, <<BackendCv>>}, u \in {<<>>, <<BackendUsers>>}}

\* the tree with the file at path made unreadable (it exists, read_text raises)
Unreadable(t, path) ==
    [t EXCEPT !.files = [n \in 1..Len(t.files) |->
                            IF t.files[n].path = path
                            THEN [t.files[n] EXCEPT !.readable = FALSE]
                            ELSE t.files[n]]]

\* one file of a complete project cannot be read
UnreadableTrees ==
    {Unreadable(MakeTree("contracts", <<SqlUsers>>, <<TsUserCamel>>, <<EndpointsCv>>, <<"">>,
                         fe, <<BackendCv>>, ""), path) :
        fe \in {<<CallUnknown>>, <<CallCvById>>},
        path \in {"contracts/database.sql", "contracts/types.ts", "contracts/endpoints.ts",
                  "contracts/errors.ts", FrontendFile, BackendFile}}

SqlCvs == "CREATE TABLE cvs (\n  id UUID,\n  file_name TEXT\n);\n"
SqlUserRoles == "CREATE TABLE user_roles (\n  user_id UUID,\n  role TEXT\n);\n"
SqlInterviews == "CREATE TABLE interviews (\n  id UUID,\n  scheduled_at TIMESTAMP\n);\n"

\* interfaces under the names the reconciler can derive, with different fields
TsCV == "export interface CV {\n  id: string;\n  file_name: string;\n}\n"
TsCv == "export interface Cv {\n  id: string;\n  fileName: string;\n}\n"
TsUserRole == "export interface UserRole {\n  userId: string;\n  role: string;\n}\n"
TsUserRoleTitled == "export interface User_Role {\n  user_id: string;\n}\n"
TsUserUpper == "export interface USER {\n  id: string;\n}\n"
TsInterview == "export interface Interview {\n  id: string;\n  scheduledAt: string;\n}\n"

\* a table with the interfaces that are candidates for it, and one that is not
NamingCases ==
    { <<SqlCvs, {TsCV, TsCv, TsInterview}>>,
      <<SqlUserRoles, {TsUserRole, TsUserRoleTitled, TsCv}>>,
      <<SqlInterviews, {TsInterview, TsCV, TsUserRole}>>,
      <<SqlUsers, {TsUserUpper, TsUserCamel, TsUserRole}>> }

\* the number of interfaces types.ts declares in a naming tree
MaxInterfaces == 2

\* one table and up to MaxInterfaces interfaces, in any order
NamingTrees ==
    UNION {{MakeTree("contracts", <<case[1]>>, <<join(ts)>>, <<EndpointsCv>>, <<"">>,
                     <<CallCvById>>, <<BackendCv>>, "") :
               ts \in SeqsUpTo(case[2], MaxInterfaces)} : case \in NamingCases}

\* any set of the candidate directories exists; the contract files are in one
\* directory, which may or may not be a candidate
LocatorTrees ==
    {[MakeTree(cdir, <<SqlUsers>>, <<TsUserCamel>>, <<EndpointsCv>>, <<"">>,
               <<CallUnknown>>, <<BackendCv>>, "") EXCEPT !.dirs = D] :
        cdir \in {contracts_candidates[n] : n \in 1..Len(contracts_candidates)} \cup {"schema"},
        D \in SUBSET {contracts_candidates[n] : n \in 1..Len(contracts_candidates)}}

\* an interface that renames one column and omits the columns around it
TsUserMixed == "export interface User {\n  id: string;\n  fullName: string;\n}\n"

\* trees whose issues of one category are not adjacent in the issue list
ReportTrees ==
    {MakeTree("contracts", <<join(db)>>, <<TsUserMixed>>, <<EndpointsCv>>, more, fe, <<BackendCv>>, "") :
        db \in {<<SqlUsers>>, <<SqlUsers, SqlOrders>>, <<SqlOrders, SqlUsers>>},
        more \in {<<>>, <<"">>}, fe \in {<<CallCvById>>, <<CallUnknown>>}}

-----------------------------------------------------------------------------
(* main and the stages of validate_all                                     *)

\* while the validator runs, the QA runner (a separate script) does not
QaIdle ==
    /\ args = [only |-> "None", skip_e2e |-> FALSE, skip_perf |-> FALSE]
    /\ project = [package_json |-> FALSE, coverage |-> [state |-> "absent", n |-> 0, s |-> ""]]
    /\ qa_pc = "idle"
    /\ stages_to_run = {}
    /\ results = <<>>
    /\ commands_run = <<>>
    /\ qa_report = <<>>
    /\ qa_exit_status = -1
\* a table whose column list holds a comment, a blank line and constraint clauses
SqlItems ==
    "CREATE TABLE items (\n  id UUID NOT NULL,\n  -- the owner\n  owner_id UUID not null,\n\n  price NUMERIC,\n  PRIMARY KEY (id),\n  FOREIGN KEY (owner_id) REFERENCES users(id),\n  CHECK (price > 0),\n  CONSTRAINT items_owner UNIQUE (owner_id)\n);\n"

\* the same declaration written in lower case
SqlItemsLower ==
    "create table items (\n  id uuid not null,\n  owner_id uuid not null,\n  price numeric,\n  primary key (id),\n  foreign key (owner_id) references users(id),\n  check (price > 0),\n  constraint items_owner unique (owner_id)\n);\n"

\* an interface for the table items
TsItem == "export interface Item {\n  id: string;\n  ownerId: string;\n  price?: number;\n}\n"

\* schemas with constraint clauses in either letter case
ConstraintTrees ==
    {MakeTree("contracts", <<db>>, ts, <<EndpointsCv>>, <<"">>, <<CallCvById>>, <<BackendCv>>, "") :
        db \in {SqlItems, SqlItemsLower, SqlItems \o SqlUsers}, ts \in {<<>>, <<TsItem>>}}
\* an interface with a field of a nested object type, followed by more fields
TsProfileNested ==
    "export interface Profile {\n  id: string;\n  address: {\n    street: string;\n  };\n  bio?: string;\n  full_name: string;\n}\n"

\* the same interface with the nested type on one line
TsProfileInline ==
    "export interface Profile {\n  id: string;\n  // where they live\n\n  address: Address;\n  bio?: string;\n  full_name: string;\n}\n"

SqlProfiles == "CREATE TABLE profiles (\n  id UUID,\n  bio TEXT,\n  full_name TEXT\n);\n"

\* interfaces with and without a nested object type
InterfaceTrees ==
    {MakeTree("contracts", db, <<ts>>, <<EndpointsCv>>, <<"">>, <<CallCvById>>, <<BackendCv>>, "") :
        db \in {<<>>, <<SqlProfiles>>},
        ts \in {TsProfileNested, TsProfileInline, TsProfileInline \o TsUserCamel}}
\* a table whose name ends in two s, one whose name ends in none
SqlGlass == "CREATE TABLE glass (\n  id UUID,\n  tint TEXT\n);\n"
SqlPerson == "CREATE TABLE person (\n  id UUID\n);\n"

TsGlas == "export interface Glas {\n  id: string;\n}\n"
TsGla == "export interface Gla {\n  id: string;\n  tint: string;\n}\n"
TsPerson == "export interface Person {\n  id: string;\n}\n"

\* table names by the number of s they end in, with the interfaces they could match
PluralTrees ==
    {MakeTree("contracts", <<case[1]>>, <<case[2]>>, <<EndpointsCv>>, <<"">>,
              <<CallCvById>>, <<BackendCv>>, "") :
        case \in {<<SqlGlass, "">>, <<SqlGlass, TsGlas>>, <<SqlGlass, TsGla>>,
                  <<SqlGlass, TsGlas \o TsGla>>,
                  <<SqlPerson, "">>, <<SqlPerson, TsPerson>>}}
\* an interface that declares a column under both names and a field of its own
TsUserBoth ==
    "export interface User {\n  id: string;\n  email: string;\n  full_name: string;\n  fullName: string;\n  created_at: string;\n  avatar?: string;\n}\n"

\* interfaces with more than the schema has: fields without a column and
\* interfaces without a table
DirectionTrees ==
    {MakeTree("contracts", db, <<ts>>, <<EndpointsCv>>, <<"">>, <<CallCvById>>, <<BackendCv>>, "") :
        db \in {<<>>, <<SqlUsers>>},
        ts \in {TsUserBoth, TsUserBoth \o TsItem, TsItem \o TsUserMixed, TsItem}}

Init ==
    /\ tree \in SchemaTrees \cup RouteTrees \cup LayoutTrees \cup ListingTrees
                 \cup UnreadableTrees \cup NamingTrees \cup LocatorTrees \cup ReportTrees
                 \cup ConstraintTrees \cup InterfaceTrees \cup PluralTrees
                 \cup DirectionTrees
    /\ contracts_dir = "None"
    /\ pc = "main"
    /\ issues = <<>>
    /\ db_tables = <<>>
    /\ ts_interfaces = <<>>
    /\ api_endpoints = <<>>
    /\ frontend_calls = <<>>
    /\ backend_routes = <<>>
    /\ report = <<>>
    /\ success = "unset"
    /\ exit_status = -1
    /\ QaIdle

\* main, lines 456-461: construct the validator; --contracts-only overrides
\* the directory the constructor found
Main ==
    /\ pc = "main"
    /\ contracts_dir' = IF tree.contracts_only # "" THEN tree.contracts_only
                        ELSE find_contracts_dir(tree)
    /\ pc' = "check_contract_files"
    /\ UNCHANGED <<tree, issues, db_tables, ts_interfaces, api_endpoints,
                   frontend_calls, backend_routes, report, success, exit_status>>
    /\ UNCHANGED qa_vars

\* Check 1; the parsing stages are skipped when there is no contracts directory
CheckContractFiles ==
    /\ pc = "check_contract_files"
    /\ issues' = issues \o check_contract_files(tree, contracts_dir)
    /\ pc' = IF contracts_dir # "None" THEN "parse_database_sql" ELSE "scan_frontend_calls"
    /\ UNCHANGED <<tree, contracts_dir, db_tables, ts_interfaces, api_endpoints,
                   frontend_calls, backend_routes, report, success, exit_status>>
    /\ UNCHANGED qa_vars

ParseDatabaseSql ==
    /\ pc = "parse_database_sql"
    /\ db_tables' = IF /\ Exists(tree, contracts_dir \o "/database.sql")
                     /\ Readable(tree, contracts_dir \o "/database.sql")
                  THEN parse_database_sql(FileText(tree, contracts_dir \o "/database.sql"), db_tables)
                  ELSE db_tables
    /\ pc' = IF /\ Exists(tree, contracts_dir \o "/database.sql")
                /\ ~Readable(tree, contracts_dir \o "/database.sql")
             THEN "raise" ELSE "parse_types_ts"
    /\ UNCHANGED <<tree, contracts_dir, issues, ts_interfaces, api_endpoints,
                   frontend_calls, backend_routes, report, success, exit_status>>
    /\ UNCHANGED qa_vars

ParseTypesTs ==
    /\ pc = "parse_types_ts"
    /\ ts_interfaces' = IF /\ Exists(tree, contracts_dir \o "/types.ts")
                         /\ Readable(tree, contracts_dir \o "/types.ts")
                      THEN parse_types_ts(FileText(tree, contracts_dir \o "/types.ts"), ts_interfaces)
                      ELSE ts_interfaces
    /\ pc' = IF /\ Exists(tree, contracts_dir \o "/types.ts")
                /\ ~Readable(tree, contracts_dir \o "/types.ts")
             THEN "raise" ELSE "compare_db_to_ts"
    /\ UNCHANGED <<tree, contracts_dir, issues, db_tables, api_endpoints,
                   frontend_calls, backend_routes, report, success, exit_status>>
    /\ UNCHANGED qa_vars

CompareDbToTs ==
    /\ pc = "compare_db_to_ts"
    /\ issues' = issues \o compare_db_to_ts(db_tables, ts_interfaces, 1)
    /\ pc' = "parse_endpoints_ts"
    /\ UNCHANGED <<tree, contracts_dir, db_tables, ts_interfaces, api_endpoints,
                   frontend_calls, backend_routes, report, success, exit_status>>
    /\ UNCHANGED qa_vars

ParseEndpointsTs ==
    /\ pc = "parse_endpoints_ts"
    /\ api_endpoints' = IF /\ Exists(tree, contracts_dir \o "/endpoints.ts")
                         /\ Readable(tree, contracts_dir \o "/endpoints.ts")
                      THEN parse_endpoints_ts(FileText(tree, contracts_dir \o "/endpoints.ts"), api_endpoints)
                      ELSE api_endpoints
    /\ pc' = IF /\ Exists(tree, contracts_dir \o "/endpoints.ts")
                /\ ~Readable(tree, contracts_dir \o "/endpoints.ts")
             THEN "raise" ELSE "scan_frontend_calls"
    /\ UNCHANGED <<tree, contracts_dir, issues, db_tables, ts_interfaces,
                   frontend_calls, backend_routes, report, success, exit_status>>
    /\ UNCHANGED qa_vars

ScanFrontendCalls ==
    /\ pc = "scan_frontend_calls"
    /\ \E listing \in Listings(tree, frontend_dirs) :
           frontend_calls' = frontend_calls
                                 \o ScanFrontendDirs([tree EXCEPT !.files = listing], 1)
    /\ pc' = "scan_backend_routes"
    /\ UNCHANGED <<tree, contracts_dir, issues, db_tables, ts_interfaces,
                   api_endpoints, backend_routes, report, success, exit_status>>
    /\ UNCHANGED qa_vars

ScanBackendRoutes ==
    /\ pc = "scan_backend_routes"
    /\ \E listing \in Listings(tree, backend_dirs) :
           backend_routes' = backend_routes
                                 \o ScanBackendDirs([tree EXCEPT !.files = listing], 1)
    /\ pc' = "compare_frontend_to_backend"
    /\ UNCHANGED <<tree, contracts_dir, issues, db_tables, ts_interfaces,
                   api_endpoints, frontend_calls, report, success, exit_status>>
    /\ UNCHANGED qa_vars

\* a route comparison that puts its issues in front of the recorded ones
CompareFrontendToBackendInFront ==
    /\ pc = "compare_frontend_to_backend"
    /\ issues' = compare_frontend_to_backend(frontend_calls, backend_routes, api_endpoints, 1) \o issues
    /\ pc' = "print_report"
    /\ UNCHANGED <<tree, contracts_dir, db_tables, ts_interfaces, api_endpoints,
                   frontend_calls, backend_routes, report, success, exit_status>>
    /\ UNCHANGED qa_vars

CompareFrontendToBackend ==
    /\ pc = "compare_frontend_to_backend"
    /\ issues' = issues \o compare_frontend_to_backend(frontend_calls, backend_routes, api_endpoints, 1)
    /\ pc' = "print_report"
    /\ UNCHANGED <<tree, contracts_dir, db_tables, ts_interfaces, api_endpoints,
                   frontend_calls, backend_routes, report, success, exit_status>>
    /\ UNCHANGED qa_vars

PrintReport ==
    /\ pc = "print_report"
    /\ report' = print_report(issues)
    /\ pc' = "return"
    /\ UNCHANGED <<tree, contracts_dir, issues, db_tables, ts_interfaces,
                   api_endpoints, frontend_calls, backend_routes, success, exit_status>>
    /\ UNCHANGED qa_vars

\* lines 107-108: the verdict of validate_all
Return ==
    /\ pc = "return"
    /\ success' = Verdict(issues)
    /\ pc' = "exit"
    /\ UNCHANGED <<tree, contracts_dir, issues, db_tables, ts_interfaces,
                   api_endpoints, frontend_calls, backend_routes, report, exit_status>>
    /\ UNCHANGED qa_vars

\* line 464: sys.exit(0 if success else 1)
Exit ==
    /\ pc = "exit"
    /\ exit_status' = ExitCode(success)
    /\ pc' = "done"
    /\ UNCHANGED <<tree, contracts_dir, issues, db_tables, ts_interfaces,
                   api_endpoints, frontend_calls, backend_routes, report, success>>
    /\ UNCHANGED qa_vars

\* an exception of read_text (lines 148, 182, 287) is caught nowhere: it
\* leaves validate_all and main, and the interpreter exits with status 1
Raise ==
    /\ pc = "raise"
    /\ exit_status' = 1
    /\ pc' = "aborted"
    /\ UNCHANGED <<tree, contracts_dir, issues, db_tables, ts_interfaces,
                   api_endpoints, frontend_calls, backend_routes, report, success>>
    /\ UNCHANGED qa_vars

Next ==
    \/ Main
    \/ CheckContractFiles
    \/ ParseDatabaseSql
    \/ ParseTypesTs
    \/ CompareDbToTs
    \/ ParseEndpointsTs
    \/ ScanFrontendCalls
    \/ ScanBackendRoutes
    \/ CompareFrontendToBackend
    \/ PrintReport
    \/ Return
    \/ Exit
    \/ Raise

Spec == Init /\ [][Next]_vars

-----------------------------------------------------------------------------
(* The QA runner (skills/qa-engineer/scripts/run_full_qa.py)               *)
(*                                                                         *)
(* The commands the stages run are the environment: run_command returns    *)
(* for each of them one of a few outcomes.  A StageResult is modelled      *)
(* without duration_seconds, which no decision of the script reads.        *)

\* str.lower()
RECURSIVE LowerFrom(_, _)
LowerFrom(s, i) ==
    IF i > Len(s) THEN "" ELSE LowerChar(Ch(s, i)) \o LowerFrom(s, i + 1)

Lower(s) == LowerFrom(s, 1)

\* str(n) for a natural number
RECURSIVE str(_)
str(n) ==
    IF n < 10 THEN SubSeq(DigitChars, n + 1, n + 1)
    ELSE str(n \div 10) \o SubSeq(DigitChars, (n % 10) + 1, (n % 10) + 1)

\* what run_command can return: (returncode, stdout, stderr)
CommandOk == [code |-> 0, stdout |-> "", stderr |-> ""]
CommandFailed ==
    [code |-> 1, stdout |-> "2 violations found", stderr |-> "Error: lhci assertion failed"]
CommandNotFound == [code |-> 127, stdout |-> "", stderr |-> "sh: 1: lhci: not found"]
CommandMissingScript ==
    [code |-> 1, stdout |-> "", stderr |-> "npm ERR! Missing script: test"]
\* line 58: the command ran into the timeout
CommandTimedOut == [code |-> -1, stdout |-> "", stderr |-> "Command timed out"]

CommandOutcomes ==
    {CommandOk, CommandFailed, CommandNotFound, CommandMissingScript, CommandTimedOut}

\* a StageResult; blocking defaults to True
StageResult(name, status, details, blocking) ==
    [name |-> name, status |-> status, details |-> details, blocking |-> blocking]

\* the values of Python the coverage can take
PyNone == [kind |-> "None", n |-> 0, s |-> ""]
PyNum(n) == [kind |-> "num", n |-> n, s |-> ""]
PyStr(s) == [kind |-> "str", n |-> 0, s |-> s]

\* bool(v)
Truthy(v) ==
    CASE v.kind = "None" -> FALSE
      [] v.kind = "num" -> v.n # 0
      [] v.kind = "str" -> v.s # ""

\* extract_coverage: total.lines.pct of coverage/coverage-summary.json, 0
\* when the keys are missing, None when the file is absent or is no JSON
extract_coverage(file) ==
    CASE file.state = "absent" -> PyNone
      [] file.state = "garbage" -> PyNone
      [] file.state = "no_total" -> PyNum(0)
      [] file.state = "pct" -> PyNum(file.n)
      [] file.state = "text" -> PyStr(file.s)

\* line 96
CoverageThreshold == 80

\* the commands of a stage, in listed order
UnitCommands ==
    << "pnpm test:unit --coverage", "npm run test:unit -- --coverage",
       "pnpm test -- --run --coverage" >>
IntegrationCommands == << "pnpm test:integration", "npm run test:integration" >>
E2eCommands == << "pnpm exec playwright --version", "pnpm test:e2e" >>
A11yCommands == << "pnpm test:a11y", "npm run test:a11y" >>
PerfCommands == << "npx lhci autorun" >>

\* the position of the first command that exited 0, 0 when none did
FirstSuccess(outs) == MinPos({k \in 1..Len(outs) : outs[k].code = 0})

\* the commands a for-loop over cmds has run: up to the first success
Tried(cmds, outs) ==
    IF FirstSuccess(outs) = 0 THEN cmds ELSE SubSeq(cmds, 1, FirstSuccess(outs))

\* stderr after the loop: that of the last command run
LastStderr(outs) ==
    IF FirstSuccess(outs) = 0 THEN outs[Len(outs)].stderr ELSE outs[FirstSuccess(outs)].stderr

\* line 96: the comparison coverage < 80 raises TypeError for a pct that is
\* no number
unit_tests_raise(outs, file) ==
    /\ FirstSuccess(outs) # 0
    /\ Truthy(extract_coverage(file))
    /\ extract_coverage(file).kind = "str"

\* run_unit_tests, when it returns
run_unit_tests(outs, file) ==
    LET coverage == extract_coverage(file)
    IN  IF FirstSuccess(outs) = 0
        THEN StageResult("Unit Tests", "FAIL",
                         IF LastStderr(outs) # "" THEN LastStderr(outs) ELSE "Tests failed", TRUE)
        ELSE IF Truthy(coverage) /\ coverage.n < CoverageThreshold
        THEN StageResult("Unit Tests", "WARN",
                         "Coverage " \o str(coverage.n) \o "% below 80% threshold", FALSE)
        ELSE StageResult("Unit Tests", "PASS",
                         IF Truthy(coverage) THEN "Coverage: " \o str(coverage.n) \o "%"
                         ELSE "Tests passed", TRUE)

\* lines 155 and 231: the stage's script is not configured
NotConfigured(stderr) ==
    Contains(Lower(stderr), "not found") \/ Contains(Lower(stderr), "missing script")

run_integration_tests(outs) ==
    IF FirstSuccess(outs) # 0
    THEN StageResult("Integration Tests", "PASS", "All integration tests passed", TRUE)
    ELSE IF NotConfigured(LastStderr(outs))
    THEN StageResult("Integration Tests", "SKIP", "No integration tests configured", FALSE)
    ELSE StageResult("Integration Tests", "FAIL",
                     IF LastStderr(outs) # "" THEN LastStderr(outs) ELSE "Tests failed", TRUE)

\* run_e2e_tests: outs[1] is the playwright version check, outs[2] the tests
run_e2e_tests(outs) ==
    IF outs[1].code # 0
    THEN StageResult("E2E Tests", "SKIP", "Playwright not installed", FALSE)
    ELSE IF outs[2].code = 0
    THEN StageResult("E2E Tests", "PASS", "All E2E tests passed", TRUE)
    ELSE StageResult("E2E Tests", "FAIL",
                     IF outs[2].stderr # "" THEN outs[2].stderr ELSE "E2E tests failed", TRUE)

\* the commands run_e2e_tests has run
TriedE2e(outs) == IF outs[1].code # 0 THEN SubSeq(E2eCommands, 1, 1) ELSE E2eCommands

run_accessibility_audit(outs) ==
    LET last == outs[Len(outs)]
    IN  IF FirstSuccess(outs) # 0
        THEN StageResult("Accessibility", "PASS", "No critical accessibility violations", TRUE)
        ELSE IF NotConfigured(last.stderr)
        THEN StageResult("Accessibility", "SKIP", "No accessibility tests configured", FALSE)
        ELSE IF Contains(Lower(last.stdout), "violation") \/ Contains(Lower(last.stderr), "violation")
        THEN StageResult("Accessibility", "FAIL", "Accessibility violations found", TRUE)
        ELSE StageResult("Accessibility", "WARN", "Could not determine accessibility status", FALSE)

run_performance_check(outs) ==
    IF outs[1].code = 0
    THEN StageResult("Performance", "PASS", "Performance thresholds met", FALSE)
    ELSE IF Contains(Lower(outs[1].stderr), "not found") \/ ~Contains(Lower(outs[1].stderr), "lhci")
    THEN StageResult("Performance", "SKIP", "Lighthouse CI not configured", FALSE)
    ELSE StageResult("Performance", "WARN", "Performance below threshold", FALSE)

\* the number of results with the status
CountStatus(rs, status) == Cardinality({k \in 1..Len(rs) : rs[k].status = status})

\* blocking_failures that counts every result that did not pass
blocking_failures_any(rs) == SelectSeq(rs, LAMBDA r : r.status # "PASS")

\* lines 321 and 389: the results that are FAIL and blocking
blocking_failures(rs) == SelectSeq(rs, LAMBDA r : r.status = "FAIL" /\ r.blocking)

\* generate_report: the counts, one line per result and the verdict
generate_report(rs) ==
    << [passed |-> CountStatus(rs, "PASS"), failed |-> CountStatus(rs, "FAIL"),
        warnings |-> CountStatus(rs, "WARN"), skipped |-> CountStatus(rs, "SKIP"),
        lines |-> [k \in 1..Len(rs) |-> <<rs[k].status, rs[k].name>>],
        verdict |-> IF blocking_failures(rs) # <<>> THEN "QA FAILED"
                    ELSE IF CountStatus(rs, "WARN") > 0 THEN "QA PASSED WITH WARNINGS"
                    ELSE "QA PASSED"] >>

\* the stage names main knows, in the order it runs them
StageOrder == << "unit", "integration", "e2e", "a11y", "perf" >>

AllStages == {StageOrder[k] : k \in 1..Len(StageOrder)}

\* lines 357-365
StagesToRun(a) ==
    IF a.only # "None" /\ a.only # ""
    THEN {split(Lower(a.only), ",")[k] : k \in 1..Len(split(Lower(a.only), ","))}
    ELSE (AllStages \ (IF a.skip_e2e THEN {"e2e"} ELSE {}))
             \ (IF a.skip_perf THEN {"perf"} ELSE {})

\* the values of --only on the command lines considered ("None": not given)
OnlyValues == {"None", "unit", "perf,unit", "E2E,a11y", "lint"}

\* the states of coverage/coverage-summary.json considered
CoverageFiles ==
    {[state |-> "absent", n |-> 0, s |-> ""],
     [state |-> "garbage", n |-> 0, s |-> ""],
     [state |-> "no_total", n |-> 0, s |-> ""],
     [state |-> "text", n |-> 0, s |-> "Unknown"]}
    \cup {[state |-> "pct", n |-> n, s |-> ""] : n \in {0, 79, 80}}

\* while the QA runner runs, the validator does not
ValidatorIdle ==
    /\ tree = [files |-> <<>>, dirs |-> {}, contracts_only |-> ""]
    /\ contracts_dir = "None"
    /\ pc = "idle"
    /\ issues = <<>>
    /\ db_tables = <<>>
    /\ ts_interfaces = <<>>
    /\ api_endpoints = <<>>
    /\ frontend_calls = <<>>
    /\ backend_routes = <<>>
    /\ report = <<>>
    /\ success = "unset"
    /\ exit_status = -1

QaInit ==
    /\ ValidatorIdle
    /\ args \in [only : OnlyValues, skip_e2e : BOOLEAN, skip_perf : BOOLEAN]
    /\ project \in [package_json : BOOLEAN, coverage : CoverageFiles]
    /\ qa_pc = "main"
    /\ stages_to_run = {}
    /\ results = <<>>
    /\ commands_run = <<>>
    /\ qa_report = <<>>
    /\ qa_exit_status = -1

\* main, lines 348-365: without package.json the run ends with status 1
\* before any stage; otherwise the stages to run are determined
QaMain ==
    /\ qa_pc = "main"
    /\ IF ~project.package_json
       THEN /\ qa_exit_status' = 1
            /\ qa_pc' = "done"
            /\ UNCHANGED stages_to_run
       ELSE /\ stages_to_run' = StagesToRun(args)
            /\ qa_pc' = "unit"
            /\ UNCHANGED qa_exit_status
    /\ UNCHANGED <<args, project, results, commands_run, qa_report>>
    /\ UNCHANGED validator_vars

\* lines 370-371
RunUnitTests ==
    /\ qa_pc = "unit"
    /\ IF "unit" \notin stages_to_run
       THEN /\ qa_pc' = "integration"
            /\ UNCHANGED <<results, commands_run>>
       ELSE \E outs \in [1..Len(UnitCommands) -> CommandOutcomes] :
                /\ commands_run' = commands_run \o Tried(UnitCommands, outs)
                /\ IF unit_tests_raise(outs, project.coverage)
                   THEN /\ qa_pc' = "raise"
                        /\ UNCHANGED results
                   ELSE /\ results' = Append(results, run_unit_tests(outs, project.coverage))
                        /\ qa_pc' = "integration"
    /\ UNCHANGED <<args, project, stages_to_run, qa_report, qa_exit_status>>
    /\ UNCHANGED validator_vars

\* lines 373-374
RunIntegrationTests ==
    /\ qa_pc = "integration"
    /\ IF "integration" \notin stages_to_run
       THEN UNCHANGED <<results, commands_run>>
       ELSE \E outs \in [1..Len(IntegrationCommands) -> CommandOutcomes] :
                /\ commands_run' = commands_run \o Tried(IntegrationCommands, outs)
                /\ results' = Append(results, run_integration_tests(outs))
    /\ qa_pc' = "e2e"
    /\ UNCHANGED <<args, project, stages_to_run, qa_report, qa_exit_status>>
    /\ UNCHANGED validator_vars

\* lines 376-377
RunE2eTests ==
    /\ qa_pc = "e2e"
    /\ IF "e2e" \notin stages_to_run
       THEN UNCHANGED <<results, commands_run>>
       ELSE \E outs \in [1..Len(E2eCommands) -> CommandOutcomes] :
                /\ commands_run' = commands_run \o TriedE2e(outs)
                /\ results' = Append(results, run_e2e_tests(outs))
    /\ qa_pc' = "a11y"
    /\ UNCHANGED <<args, project, stages_to_run, qa_report, qa_exit_status>>
    /\ UNCHANGED validator_vars

\* lines 379-380
RunAccessibilityAudit ==
    /\ qa_pc = "a11y"
    /\ IF "a11y" \notin stages_to_run
       THEN UNCHANGED <<results, commands_run>>
       ELSE \E outs \in [1..Len(A11yCommands) -> CommandOutcomes] :
                /\ commands_run' = commands_run \o Tried(A11yCommands, outs)
                /\ results' = Append(results, run_accessibility_audit(outs))
    /\ qa_pc' = "perf"
    /\ UNCHANGED <<args, project, stages_to_run, qa_report, qa_exit_status>>
    /\ UNCHANGED validator_vars

\* lines 382-383
RunPerformanceCheck ==
    /\ qa_pc = "perf"
    /\ IF "perf" \notin stages_to_run
       THEN UNCHANGED <<results, commands_run>>
       ELSE \E outs \in [1..Len(PerfCommands) -> CommandOutcomes] :
                /\ commands_run' = commands_run \o PerfCommands
                /\ results' = Append(results, run_performance_check(outs))
    /\ qa_pc' = "report"
    /\ UNCHANGED <<args, project, stages_to_run, qa_report, qa_exit_status>>
    /\ UNCHANGED validator_vars

\* line 386
GenerateReport ==
    /\ qa_pc = "report"
    /\ qa_report' = generate_report(results)
    /\ qa_pc' = "exit"
    /\ UNCHANGED <<args, project, stages_to_run, results, commands_run, qa_exit_status>>
    /\ UNCHANGED validator_vars

\* lines 389-390: sys.exit(1 if blocking_failures else 0)
QaExit ==
    /\ qa_pc = "exit"
    /\ qa_exit_status' = IF blocking_failures(results) # <<>> THEN 1 ELSE 0
    /\ qa_pc' = "done"
    /\ UNCHANGED <<args, project, stages_to_run, results, commands_run, qa_report>>
    /\ UNCHANGED validator_vars

\* the TypeError of line 96 is caught nowhere: it leaves run_unit_tests and
\* main, and the interpreter exits with status 1
QaRaise ==
    /\ qa_pc = "raise"
    /\ qa_exit_status' = 1
    /\ qa_pc' = "aborted"
    /\ UNCHANGED <<args, project, stages_to_run, results, commands_run, qa_report>>
    /\ UNCHANGED validator_vars

QaNext ==
    \/ QaMain
    \/ RunUnitTests
    \/ RunIntegrationTests
    \/ RunE2eTests
    \/ RunAccessibilityAudit
    \/ RunPerformanceCheck
    \/ GenerateReport
    \/ QaExit
    \/ QaRaise

QaSpec == QaInit /\ [][QaNext]_vars

-----------------------------------------------------------------------------
(* Properties                                                              *)

\* the positions of main / validate_all, in program order
PcOrder ==
    << "main", "check_contract_files", "parse_database_sql", "parse_types_ts",
       "compare_db_to_ts", "parse_endpoints_ts", "scan_frontend_calls",
       "scan_backend_routes", "compare_frontend_to_backend", "print_report",
       "return", "exit", "done" >>

PcIndex(p) == CHOOSE n \in 1..Len(PcOrder) : PcOrder[n] = p

\* the run is past the given stage (a run that raised passes no further stage)
PastStage(stage) == pc \notin {"raise", "aborted"} /\ PcIndex(pc) > PcIndex(stage)

HasError == \E n \in 1..Len(issues) : issues[n].severity = "ERROR"

\* C1: validate_all returns fail exactly when the issue list holds at least
\* one ERROR issue (warnings alone pass), and main exits with status 0
\* exactly when the verdict is pass and with 1 otherwise.
C1_VerdictIffNoError ==
    /\ PastStage("return") => (success = FALSE <=> HasError)
    /\ PastStage("return") => success \in BOOLEAN
    /\ PastStage("exit") => /\ exit_status \in {0, 1}
                            /\ exit_status = 0 <=> success = TRUE
                            /\ exit_status = 1 <=> HasError

\* a finished run that recorded warnings, no error, and exited with 0
C1_Witness ==
    /\ pc = "done"
    /\ CountSeverity(issues, "WARNING") >= 2
    /\ ~HasError
    /\ exit_status = 0

\* the tables for which _compare_db_to_ts found an interface
ComparedTables ==
    {t \in 1..Len(db_tables) : MatchedInterface(db_tables[t].key, ts_interfaces) # ""}

InterfaceOf(t) == MatchedInterface(db_tables[t].key, ts_interfaces)

FieldsOf(t) == DictGet(ts_interfaces, InterfaceOf(t))

ColumnName(t, c) == db_tables[t].value[c].key

HasExact(t, c) == DictHas(FieldsOf(t), ColumnName(t, c))

HasCamel(t, c) == DictHas(FieldsOf(t), snake_to_camel(ColumnName(t, c)))

\* the positions of the issues that are about column c of table t
IssuesForColumn(t, c) ==
    {n \in 1..Len(issues) :
        \/ /\ issues[n].category = "Field Mismatch"
           /\ Contains(issues[n].message,
                       "in '" \o InterfaceOf(t) \o "': database has '" \o ColumnName(t, c) \o "',")
        \/ /\ issues[n].category = "Missing Field"
           /\ Contains(issues[n].message,
                       "Column '" \o ColumnName(t, c) \o "' in table '" \o db_tables[t].key \o "'")}

ColumnIssuePositions ==
    {n \in 1..Len(issues) : issues[n].category \in {"Field Mismatch", "Missing Field"}}

UnmatchedColumns ==
    UNION {{<<t, c>> : c \in {k \in 1..Len(db_tables[t].value) : ~HasExact(t, k)}} : t \in ComparedTables}

\* C2: once _compare_db_to_ts has run, every column of every table that has
\* a matching interface has exactly one of three outcomes: exact field and no
\* issue; no exact field but the camelCase field and exactly one ERROR; neither
\* and exactly one WARNING.  No column has two issues.
C2_ColumnOutcomes ==
    PastStage("compare_db_to_ts") =>
        /\ \A t \in ComparedTables : \A c \in 1..Len(db_tables[t].value) :
               LET about == IssuesForColumn(t, c)
               IN  /\ HasExact(t, c) => about = {}
                   /\ (~HasExact(t, c) /\ HasCamel(t, c)) =>
                          /\ Cardinality(about) = 1
                          /\ \A n \in about : issues[n].severity = "ERROR"
                   /\ (~HasExact(t, c) /\ ~HasCamel(t, c)) =>
                          /\ Cardinality(about) = 1
                          /\ \A n \in about : issues[n].severity = "WARNING"
        /\ Cardinality(ColumnIssuePositions) = Cardinality(UnmatchedColumns)

\* one compared table shows all three outcomes
C2_Witness ==
    /\ PastStage("compare_db_to_ts")
    /\ \E t \in ComparedTables : \E c1, c2, c3 \in 1..Len(db_tables[t].value) :
           /\ HasExact(t, c1)
           /\ ~HasExact(t, c2) /\ HasCamel(t, c2)
           /\ ~HasExact(t, c3) /\ ~HasCamel(t, c3)

\* snake_case columns and the camelCase names a drifted interface gives them
DriftExamples == {<<"full_name", "fullName">>, <<"created_at", "createdAt">>}

IsDrifted(t, c, ex) ==
    /\ ColumnName(t, c) = ex[1]
    /\ ~DictHas(FieldsOf(t), ex[1])
    /\ DictHas(FieldsOf(t), ex[2])

\* the positions of the issues whose message quotes the identifier
IssuesQuoting(name) ==
    {n \in 1..Len(issues) : Contains(issues[n].message, "'" \o name \o "'")}

\* C3: casing drift.  When a column such as full_name is absent from the
\* matched interface under that name and the interface declares fullName,
\* exactly one issue is emitted for the column; it is an ERROR of category
\* "Field Mismatch" and its message names the column and the field.
C3_CasingDrift ==
    PastStage("compare_db_to_ts") =>
        \A t \in ComparedTables : \A c \in 1..Len(db_tables[t].value) : \A ex \in DriftExamples :
            IsDrifted(t, c, ex) =>
                /\ Cardinality(IssuesQuoting(ex[1])) = 1
                /\ \A n \in IssuesQuoting(ex[1]) :
                       /\ issues[n].severity = "ERROR"
                       /\ issues[n].category = "Field Mismatch"
                       /\ Contains(issues[n].message, ex[1])
                       /\ Contains(issues[n].message, ex[2])

\* the comparison ran on a table with full_name against an interface with fullName
C3_Witness ==
    /\ PastStage("compare_db_to_ts")
    /\ \E t \in ComparedTables : \E c \in 1..Len(db_tables[t].value) :
           IsDrifted(t, c, <<"full_name", "fullName">>)

CallPath(n) == NormalizeFrontendUrl(frontend_calls[n].url)

MatchedToRoute(n) ==
    \E r \in 1..Len(backend_routes) : NormalizeBackendPath(backend_routes[r].path) = CallPath(n)

MatchedToTemplate(n) ==
    /\ ~MatchedToRoute(n)
    /\ \E e \in 1..Len(api_endpoints) : api_endpoints[e].key = CallPath(n)

\* the positions of the Route Mismatch warnings for a path called from a file
RouteWarningsFor(path, file) ==
    {k \in 1..Len(issues) :
        /\ issues[k].category = "Route Mismatch"
        /\ issues[k].severity = "WARNING"
        /\ issues[k].file = file
        /\ issues[k].message = "Frontend calls '" \o path \o "' but no matching backend route found"}

\* the recorded calls of a file that normalize to a path
CallsOf(path, file) ==
    {n \in 1..Len(frontend_calls) : CallPath(n) = path /\ frontend_calls[n].file = file}

\* C4: once _compare_frontend_to_backend has run, every recorded call whose
\* normalized path begins with /api is matched to a backend route (no issue),
\* or to an endpoint template (no issue), or gets exactly one Route Mismatch
\* WARNING; a warning exists iff the path is in neither set.
C4_CallOutcomes ==
    PastStage("compare_frontend_to_backend") =>
        /\ \A n \in 1..Len(frontend_calls) :
               startswith(CallPath(n), "/api") =>
                   LET warnings == RouteWarningsFor(CallPath(n), frontend_calls[n].file)
                   IN  IF MatchedToRoute(n) \/ MatchedToTemplate(n)
                       THEN warnings = {}
                       ELSE Cardinality(warnings)
                                = Cardinality(CallsOf(CallPath(n), frontend_calls[n].file))
        /\ \A k \in 1..Len(issues) :
               issues[k].category = "Route Mismatch" =>
                   \E n \in 1..Len(frontend_calls) :
                       /\ startswith(CallPath(n), "/api")
                       /\ k \in RouteWarningsFor(CallPath(n), frontend_calls[n].file)

\* one run with a call matched only by the endpoint table and an unmatched call
C4_Witness ==
    /\ PastStage("compare_frontend_to_backend")
    /\ \E n, m \in 1..Len(frontend_calls) :
           /\ startswith(CallPath(n), "/api") /\ MatchedToTemplate(n)
           /\ startswith(CallPath(m), "/api") /\ ~MatchedToRoute(m) /\ ~MatchedToTemplate(m)
           /\ RouteWarningsFor(CallPath(m), frontend_calls[m].file) # {}

\* C5: path normalization is idempotent, for each of the three normalizers:
\* normalizing the normalized form of a scanned call url, of a scanned route
\* path, or of an endpoint-table entry returns it unchanged.
C5_NormalizationIdempotent ==
    /\ \A n \in 1..Len(frontend_calls) :
           NormalizeFrontendUrl(NormalizeFrontendUrl(frontend_calls[n].url))
               = NormalizeFrontendUrl(frontend_calls[n].url)
    /\ \A r \in 1..Len(backend_routes) :
           NormalizeBackendPath(NormalizeBackendPath(backend_routes[r].path))
               = NormalizeBackendPath(backend_routes[r].path)
    /\ \A e \in 1..Len(api_endpoints) :
           NormalizeEndpoint(api_endpoints[e].key) = api_endpoints[e].key

\* a route path with every named parameter :x written as the interpolation ${x}
RECURSIVE InterpolationFormFrom(_, _)
InterpolationFormFrom(s, i) ==
    IF i > Len(s) THEN ""
    ELSE LET e == SpanEnd(s, i + 1, WordChars)
         IN  IF Ch(s, i) = ":" /\ e > i + 1
             THEN "${" \o SubSeq(s, i + 1, e - 1) \o "}" \o InterpolationFormFrom(s, e)
             ELSE Ch(s, i) \o InterpolationFormFrom(s, i + 1)

InterpolationForm(path) == InterpolationFormFrom(path, 1)

\* a route path with every named parameter :x replaced by a literal UUID
RECURSIVE UuidFormFrom(_, _)
UuidFormFrom(s, i) ==
    IF i > Len(s) THEN ""
    ELSE LET e == SpanEnd(s, i + 1, WordChars)
         IN  IF Ch(s, i) = ":" /\ e > i + 1
             THEN Uuid \o UuidFormFrom(s, e)
             ELSE Ch(s, i) \o UuidFormFrom(s, i + 1)

UuidForm(path) == UuidFormFrom(path, 1)

\* C6: one canonical parameter placeholder.  A frontend call that writes the
\* parameter of a backend route /p/:x as /p/${x} or as a literal UUID
\* normalizes to the path the route normalizes to, whatever the name x, and
\* gets no Route Mismatch warning.
C6_CanonicalPlaceholder ==
    PastStage("compare_frontend_to_backend") =>
        \A n \in 1..Len(frontend_calls) : \A r \in 1..Len(backend_routes) :
            (frontend_calls[n].url \in {InterpolationForm(backend_routes[r].path),
                                        UuidForm(backend_routes[r].path)}) =>
                /\ CallPath(n) = NormalizeBackendPath(backend_routes[r].path)
                /\ RouteWarningsFor(CallPath(n), frontend_calls[n].file) = {}

\* the text of the readable files of the tree below a directory
TextsBelow(dir) ==
    {tree.files[n].text : n \in {k \in 1..Len(tree.files) :
        tree.files[k].readable /\ startswith(tree.files[k].path, dir \o "/")}}

FetchCvTemplate == "fetch(" \o Backtick \o "/api/cv/${id}" \o Backtick \o ")"

\* the positions of the Route Mismatch issues whose path is below /api/cv/
CvRouteMismatches ==
    {k \in 1..Len(issues) :
        issues[k].category = "Route Mismatch" /\ Contains(issues[k].message, "/api/cv/")}

\* C7: when the backend source declares router.get("/api/cv/:id", ...) and
\* the frontend source calls fetch with the template literal /api/cv/${id},
\* the call and the route are both recorded, they normalize to the same path
\* and the run has no Route Mismatch issue for the call.
C7_DynamicTemplateMatch ==
    ( /\ PastStage("compare_frontend_to_backend")
      /\ \E text \in TextsBelow("apps/web/src") : Contains(text, FetchCvTemplate)
      /\ \E text \in TextsBelow("apps/server/src") : Contains(text, "router.get(\"/api/cv/:id\"") )
    =>  /\ \E n \in 1..Len(frontend_calls) : \E r \in 1..Len(backend_routes) :
               /\ frontend_calls[n].url = "/api/cv/${id}"
               /\ backend_routes[r].path = "/api/cv/:id"
               /\ backend_routes[r].method = "GET"
               /\ CallPath(n) = NormalizeBackendPath(backend_routes[r].path)
        /\ CvRouteMismatches = {}

\* a finished run over such a frontend and backend
C7_Witness ==
    /\ pc = "done"
    /\ \E text \in TextsBelow("apps/web/src") : Contains(text, FetchCvTemplate)
    /\ \E text \in TextsBelow("apps/server/src") : Contains(text, "router.get(\"/api/cv/:id\"")
    /\ \E n \in 1..Len(frontend_calls) : frontend_calls[n].url = "/api/cv/${id}"

\* C8: the endpoint table uses the canonical form of the frontend paths.  When
\* endpoints.ts declares /api/cv/${id}, the frontend calls the same
\* interpolated path and no backend route covers it, the call is found in the
\* endpoint-template set and gets no Route Mismatch warning.
C8_EndpointTemplateMatch ==
    ( /\ PastStage("compare_frontend_to_backend")
      /\ contracts_dir # "None"
      /\ \E text \in TextsBelow(contracts_dir) :
             Contains(text, Backtick \o "/api/cv/${id}" \o Backtick)
      /\ \E n \in 1..Len(frontend_calls) : frontend_calls[n].url = "/api/cv/${id}"
      /\ \A r \in 1..Len(backend_routes) : backend_routes[r].path # "/api/cv/:id" )
    =>  /\ \E n \in 1..Len(frontend_calls) :
               frontend_calls[n].url = "/api/cv/${id}" /\ DictHas(api_endpoints, CallPath(n))
        /\ CvRouteMismatches = {}

DatabaseSqlIs(text) ==
    /\ contracts_dir # "None"
    /\ Exists(tree, contracts_dir \o "/database.sql")
    /\ FileText(tree, contracts_dir \o "/database.sql") = text

TypesTsIs(text) ==
    /\ contracts_dir # "None"
    /\ Exists(tree, contracts_dir \o "/types.ts")
    /\ FileText(tree, contracts_dir \o "/types.ts") = text

\* C9: parse resilience.  For a database.sql with one malformed table block
\* (sessions, never closed) and one well-formed block (users), in either
\* order, extraction records exactly one parse warning and db_tables holds
\* exactly the table users with the four columns its block declares.
C9_ParseResilience ==
    ( /\ pc = "parse_types_ts"
      /\ DatabaseSqlIs(SqlMalformed \o SqlUsers) \/ DatabaseSqlIs(SqlUsers \o SqlMalformed) )
    =>  /\ CountSeverity(issues, "WARNING") = 1
        /\ DictKeys(db_tables) = <<"users">>
        /\ DictKeys(DictGet(db_tables, "users")) = <<"id", "email", "full_name", "created_at">>

\* C10: duplicate definitions.  When a table, an interface or a field of one
\* interface is declared twice, the last declaration is the one kept and a
\* warning issue is recorded for the duplicate.
C10_DuplicatePolicy ==
    /\ (pc = "parse_types_ts" /\ DatabaseSqlIs(SqlUsers \o SqlUsersAgain)) =>
           /\ DictKeys(DictGet(db_tables, "users")) = <<"id", "nickname">>
           /\ CountSeverity(issues, "WARNING") >= 1
    /\ (pc = "compare_db_to_ts" /\ TypesTsIs(TsUserExact \o TsUserCamel)) =>
           /\ DictKeys(DictGet(ts_interfaces, "User")) = <<"id", "email", "fullName", "createdAt">>
           /\ CountSeverity(issues, "WARNING") >= 1
    /\ (pc = "compare_db_to_ts" /\ TypesTsIs(TsUserPartial)) =>
           /\ DictGet(DictGet(ts_interfaces, "User"), "id") = [type |-> "number", optional |-> TRUE]
           /\ CountSeverity(issues, "WARNING") >= 1

ContractsIssues == {n \in 1..Len(issues) : issues[n].category = "Contracts"}

\* the issues that report the required file as missing
MissingReports(filename) ==
    {n \in ContractsIssues :
        issues[n].message = "Missing required contract file: " \o filename}

AbsentFiles ==
    {k \in 1..Len(required_files) : ~Exists(tree, contracts_dir \o "/" \o required_files[k])}

\* the contract file is present and can be read
Extractable(filename) ==
    /\ contracts_dir # "None"
    /\ Exists(tree, contracts_dir \o "/" \o filename)
    /\ Readable(tree, contracts_dir \o "/" \o filename)

\* C11: every absent contract artifact gives exactly one ERROR issue of
\* category Contracts: one for the contracts directory when there is none,
\* otherwise one per absent required file and none for a present one.  An
\* absent artifact blocks only its own extraction: in a finished run with an
\* absent artifact each present contract file has been extracted and the
\* frontend and backend sources have been scanned and reconciled.
C11_StructuralErrors ==
    /\ PastStage("check_contract_files") =>
           /\ \A n \in ContractsIssues : issues[n].severity = "ERROR"
           /\ contracts_dir = "None" => Cardinality(ContractsIssues) = 1
           /\ contracts_dir # "None" =>
                  /\ \A k \in 1..Len(required_files) :
                         Cardinality(MissingReports(required_files[k]))
                             = IF k \in AbsentFiles THEN 1 ELSE 0
                  /\ Cardinality(ContractsIssues) = Cardinality(AbsentFiles)
    /\ (pc = "done" /\ (contracts_dir = "None" \/ AbsentFiles # {})) =>
           /\ Extractable("database.sql") =>
                  db_tables = parse_database_sql(FileText(tree, contracts_dir \o "/database.sql"), <<>>)
           /\ Extractable("types.ts") =>
                  ts_interfaces = parse_types_ts(FileText(tree, contracts_dir \o "/types.ts"), <<>>)
           /\ Extractable("endpoints.ts") =>
                  api_endpoints = parse_endpoints_ts(FileText(tree, contracts_dir \o "/endpoints.ts"), <<>>)
           /\ \E listing \in Listings(tree, frontend_dirs) :
                  frontend_calls = ScanFrontendDirs([tree EXCEPT !.files = listing], 1)
           /\ \E listing \in Listings(tree, backend_dirs) :
                  backend_routes = ScanBackendDirs([tree EXCEPT !.files = listing], 1)
           /\ \A n \in 1..Len(frontend_calls) :
                  (startswith(CallPath(n), "/api") /\ ~MatchedToRoute(n) /\ ~MatchedToTemplate(n)) =>
                      RouteWarningsFor(CallPath(n), frontend_calls[n].file) # {}

\* a finished run without database.sql that still extracted the interfaces,
\* scanned both sources and reported the file and an unmatched call
C11_Witness ==
    /\ pc = "done"
    /\ contracts_dir # "None"
    /\ ~Exists(tree, contracts_dir \o "/database.sql")
    /\ Cardinality(MissingReports("database.sql")) = 1
    /\ ts_interfaces # <<>>
    /\ frontend_calls # <<>>
    /\ backend_routes # <<>>
    /\ \E n \in 1..Len(issues) : issues[n].category = "Route Mismatch"

\* the tables none of whose candidate interface names is declared
UncoveredTables ==
    {t \in 1..Len(db_tables) :
        \A v \in 1..Len(Variations(db_tables[t].key)) :
            ~DictHas(ts_interfaces, Variations(db_tables[t].key)[v])}

\* the Type Sync issues that name the table
TypeSyncFor(t) ==
    {n \in 1..Len(issues) :
        /\ issues[n].category = "Type Sync"
        /\ Contains(issues[n].message, "for table '" \o db_tables[t].key \o "'")}

\* the Missing Field issues that name the table
MissingFieldOf(t) ==
    {n \in 1..Len(issues) :
        /\ issues[n].category = "Missing Field"
        /\ Contains(issues[n].message, "in table '" \o db_tables[t].key \o "'")}

OnlyTypeSync == \A n \in 1..Len(issues) : issues[n].category = "Type Sync"

\* C12: a table none of whose candidate interface names is declared gets
\* exactly one WARNING of category Type Sync naming it and no per-column
\* issue; every column issue belongs to a column of a matched table; a run
\* whose only issues are of this kind passes.
C12_MissingProjectionAdvisory ==
    /\ PastStage("compare_db_to_ts") =>
           /\ \A t \in UncoveredTables :
                  /\ Cardinality(TypeSyncFor(t)) = 1
                  /\ \A n \in TypeSyncFor(t) : issues[n].severity = "WARNING"
                  /\ MissingFieldOf(t) = {}
           /\ \A t \in 1..Len(db_tables) : t \notin UncoveredTables => TypeSyncFor(t) = {}
           /\ Cardinality({n \in 1..Len(issues) : issues[n].category = "Type Sync"})
                  = Cardinality(UncoveredTables)
           /\ Cardinality(ColumnIssuePositions) = Cardinality(UnmatchedColumns)
    /\ (PastStage("return") /\ OnlyTypeSync) => success = TRUE

\* a finished, passing run whose issues are the missing-interface warnings
C12_Witness ==
    /\ pc = "done"
    /\ UncoveredTables # {}
    /\ issues # <<>>
    /\ OnlyTypeSync
    /\ success = TRUE
    /\ exit_status = 0

\* the issue list of a run on the tree whose frontend and backend directories
\* are enumerated as in the listings fl and bl
IssuesOfRun(fl, bl) ==
    check_contract_files(tree, contracts_dir)
        \o (IF contracts_dir # "None" THEN compare_db_to_ts(db_tables, ts_interfaces, 1) ELSE <<>>)
        \o compare_frontend_to_backend(ScanFrontendDirs([tree EXCEPT !.files = fl], 1),
                                       ScanBackendDirs([tree EXCEPT !.files = bl], 1),
                                       api_endpoints, 1)

\* C13: determinism.  The issue list and the verdict of a finished run are
\* those of every other run on the same tree: they depend on the contents of
\* the tree only, not on the order in which the files are enumerated.
C13_Determinism ==
    pc = "done" =>
        \A fl \in Listings(tree, frontend_dirs) : \A bl \in Listings(tree, backend_dirs) :
            /\ issues = IssuesOfRun(fl, bl)
            /\ success = Verdict(IssuesOfRun(fl, bl))

\* C14: the validator never aborts mid-run.  No exception leaves a component,
\* and whatever the tree, unreadable files included, the run ends with the
\* report printed and a verdict returned.
C14_NeverAborts ==
    /\ pc \notin {"raise", "aborted"}
    /\ pc = "done" => (report # <<>> /\ success \in BOOLEAN)

\* the category/severity pairs of the taxonomy
Taxonomy ==
    { <<"Contracts", "ERROR">>, <<"Field Mismatch", "ERROR">>,
      <<"Type Sync", "WARNING">>, <<"Missing Field", "WARNING">>,
      <<"Route Mismatch", "WARNING">> }

CategoriesSeen == {issues[n].category : n \in 1..Len(issues)}

\* C15: in every reachable issue list, Contracts and Field Mismatch issues
\* are ERROR, Type Sync, Missing Field and Route Mismatch issues are WARNING,
\* and there is no other category or pairing; so a run that fails has an
\* absent artifact or a casing drift.
C15_SeverityTaxonomy ==
    /\ \A n \in 1..Len(issues) : <<issues[n].category, issues[n].severity>> \in Taxonomy
    /\ (PastStage("return") /\ success = FALSE) =>
           CategoriesSeen \cap {"Contracts", "Field Mismatch"} # {}

\* a finished, failing run with issues of both severities in three categories
C15_Witness ==
    /\ pc = "done"
    /\ success = FALSE
    /\ Cardinality(CategoriesSeen) >= 3
    /\ \E n \in 1..Len(issues) : issues[n].severity = "WARNING"

\* the positions of the category headers of the report
HeaderPositions == {k \in 1..Len(report) : report[k].kind = "category"}

\* the position in the issue list at which the category is first seen
FirstSeen(c) == MinPos({n \in 1..Len(issues) : issues[n].category = c})

\* the printed items from the header at position h up to the next header
SectionEnd(h) ==
    LET later == {k \in HeaderPositions : k > h}
    IN  IF later = {} THEN Len(report) ELSE MinPos(later)

SectionIssues(h) ==
    [k \in 1..(SectionEnd(h) - h - 1) |-> report[h + k]]

\* C16: the report starts with the error and warning counts of the issue
\* list; its category headers are the categories of the list, each once, in
\* first-seen order; under a header come exactly the issues of that
\* category, in creation order, so every issue is shown exactly once,
\* warnings included.
C16_ReportGrouping ==
    (PastStage("print_report") /\ issues # <<>>) =>
        /\ report[1] = [kind |-> "summary",
                        errors |-> Cardinality({n \in 1..Len(issues) : issues[n].severity = "ERROR"}),
                        warnings |-> Cardinality({n \in 1..Len(issues) : issues[n].severity = "WARNING"})]
        /\ report[Len(report)].kind = "verdict"
        /\ {report[h].name : h \in HeaderPositions} = CategoriesSeen
        /\ \A h, g \in HeaderPositions :
               /\ (h # g) => report[h].name # report[g].name
               /\ (h < g) => FirstSeen(report[h].name) < FirstSeen(report[g].name)
        /\ \A h \in HeaderPositions :
               SectionIssues(h) =
                   [k \in 1..Len(SelectSeq(issues, LAMBDA i : i.category = report[h].name)) |->
                       [kind |-> "issue",
                        issue |-> SelectSeq(issues, LAMBDA i : i.category = report[h].name)[k]]]
        /\ Cardinality({k \in 1..Len(report) : report[k].kind = "issue"}) = Len(issues)
        /\ Len(report) = 2 + Cardinality(HeaderPositions) + Len(issues)

\* a printed report that had to regroup: an issue of another category lies
\* between two issues of one category, and both severities occur
C16_Witness ==
    /\ PastStage("print_report")
    /\ \E i, j, k \in 1..Len(issues) :
           /\ i < j /\ j < k
           /\ issues[i].category = issues[k].category
           /\ issues[i].category # issues[j].category
    /\ \E n \in 1..Len(issues) : issues[n].severity = "ERROR"
    /\ \E n \in 1..Len(issues) : issues[n].severity = "WARNING"

\* the candidate names of table t, in the order they are generated
Candidates(t) == Variations(db_tables[t].key)

\* the issues that compare a column with the interface named name
IssuesAgainst(name) ==
    {n \in 1..Len(issues) :
        \/ /\ issues[n].category = "Field Mismatch"
           /\ Contains(issues[n].message, "Case mismatch in '" \o name \o "':")
        \/ /\ issues[n].category = "Missing Field"
           /\ Contains(issues[n].message, "not found in interface '" \o name \o "'")}

\* the columns of table t that the interface named name does not declare
ColumnsNotIn(t, name) ==
    {c \in 1..Len(db_tables[t].value) :
        ~DictHas(DictGet(ts_interfaces, name), db_tables[t].value[c].key)}

\* C17: matching precedence.  The candidate names of a table are tried in
\* generation order and the columns are compared with the first candidate
\* that is a declared interface: one issue per column that interface lacks,
\* and no issue against any other candidate.  The built-in name of a known
\* table (cvs: CV) is the first candidate, so it wins over a derived name.
C17_MatchingPrecedence ==
    PastStage("compare_db_to_ts") =>
        \A t \in 1..Len(db_tables) :
            LET cands == Candidates(t)
                hit == MinPos({v \in 1..Len(cands) : DictHas(ts_interfaces, cands[v])})
                first == IF hit = 0 THEN "" ELSE cands[hit]
            IN  /\ first # "" =>
                       /\ Cardinality(IssuesAgainst(first)) = Cardinality(ColumnsNotIn(t, first))
                       /\ \A v \in 1..Len(cands) : cands[v] # first => IssuesAgainst(cands[v]) = {}
                       /\ TypeSyncFor(t) = {}
                /\ (DictHas(table_to_interface, db_tables[t].key)
                       /\ DictHas(ts_interfaces, DictGet(table_to_interface, db_tables[t].key))) =>
                       first = DictGet(table_to_interface, db_tables[t].key)

\* the table cvs with both the interface CV and the interface Cv declared,
\* compared with CV (which has both columns) and not with Cv (which would
\* give a Field Mismatch)
C17_Witness ==
    /\ pc = "done"
    /\ DictKeys(db_tables) = <<"cvs">>
    /\ DictHas(ts_interfaces, "CV")
    /\ DictHas(ts_interfaces, "Cv")
    /\ ColumnsNotIn(1, "Cv") # {}
    /\ ColumnIssuePositions = {}

\* the name without its plural s
Singular(name) ==
    IF endswith(name, "s") THEN SubSeq(name, 1, Len(name) - 1) ELSE name

\* the words of the singular name, each title-cased, joined
CamelJoined(name) ==
    LET words == split(Singular(name), "_")
    IN  join([n \in 1..Len(words) |-> title(words[n])])

\* the names derived for a table: singular and title-cased, and camel-joined
DerivedNames(name) == {title(Singular(name)), CamelJoined(name)}

\* the declared interfaces among the derived names of table t
DerivedDeclared(t) ==
    {d \in DerivedNames(db_tables[t].key) : DictHas(ts_interfaces, d)}

TableNamed(name) == CHOOSE t \in 1..Len(db_tables) : db_tables[t].key = name

\* the name ends in at most one s, so that its plural ending is that s
PluralEndingIsOneS(name) == ~endswith(Singular(name), "s")

StageRank(category) ==
    CASE category = "Contracts" -> 1
      [] category \in {"Type Sync", "Field Mismatch", "Missing Field"} -> 2
      [] category = "Route Mismatch" -> 3
      [] OTHER -> 0

\* the issues about table t: its Type Sync warning or its column issues
IssuesAboutTable(t) ==
    TypeSyncFor(t) \cup UNION {IssuesForColumn(t, c) : c \in 1..Len(db_tables[t].value)}

\* the recorded calls that match neither a backend route nor an endpoint key
UnmatchedCalls ==
    SelectSeq(frontend_calls,
              LAMBDA c : /\ startswith(NormalizeFrontendUrl(c.url), "/api")
                         /\ \A r \in 1..Len(backend_routes) :
                                NormalizeBackendPath(backend_routes[r].path) # NormalizeFrontendUrl(c.url)
                         /\ ~DictHas(api_endpoints, NormalizeFrontendUrl(c.url)))

RouteMismatchIssues == SelectSeq(issues, LAMBDA i : i.category = "Route Mismatch")

\* the final issue list is in creation order: by stage, then by table and
\* column, then by recorded call
InCreationOrder ==
    /\ \A i, j \in 1..Len(issues) :
           i < j => StageRank(issues[i].category) <= StageRank(issues[j].category)
    /\ \A t, u \in 1..Len(db_tables) : \A i \in IssuesAboutTable(t) : \A j \in IssuesAboutTable(u) :
           t < u => i < j
    /\ \A t \in ComparedTables : \A c, d \in 1..Len(db_tables[t].value) :
           \A i \in IssuesForColumn(t, c) : \A j \in IssuesForColumn(t, d) : c < d => i < j
    /\ Len(RouteMismatchIssues) = Len(UnmatchedCalls)
    /\ \A k \in 1..Len(RouteMismatchIssues) :
           /\ RouteMismatchIssues[k].file = UnmatchedCalls[k].file
           /\ RouteMismatchIssues[k].message
                  = "Frontend calls '" \o NormalizeFrontendUrl(UnmatchedCalls[k].url)
                        \o "' but no matching backend route found"

\* C19: the issue list is append-only: every step of the run keeps the
\* issues recorded so far, unchanged and at their positions, and the list of
\* the finished run is in creation order: Contracts issues, then the schema
\* and interface issues by table and column, then the Route Mismatch issues
\* in the order of the recorded calls.
C19_AppendOnly ==
    /\ [][/\ Len(issues') >= Len(issues)
          /\ SubSeq(issues', 1, Len(issues)) = issues]_vars
    /\ [](pc = "done" => InCreationOrder)

\* a finished run with issues of all three stages
C19_Witness ==
    /\ pc = "done"
    /\ {StageRank(issues[n].category) : n \in 1..Len(issues)} = {1, 2, 3}
    /\ Cardinality(CategoriesSeen) >= 4

\* the ranks of the candidate directories that exist in the tree
ExistingCandidates ==
    {n \in 1..Len(contracts_candidates) : Exists(tree, contracts_candidates[n])}

\* C20: without --contracts-only, the contracts directory is the existing
\* candidate of the highest rank (contracts, packages/shared/src/contracts,
\* packages/shared/contracts, src/contracts), and a lower-ranked one is taken
\* only when every higher-ranked one is absent.  When no candidate exists
\* nothing is extracted from contracts and no schema issue is produced, while
\* the sources are still scanned and the calls reconciled.
C20_ArtifactLocator ==
    (PastStage("main") /\ tree.contracts_only = "") =>
        /\ ExistingCandidates = {} <=> contracts_dir = "None"
        /\ \A n \in ExistingCandidates :
               (\A m \in ExistingCandidates : n <= m) => contracts_dir = contracts_candidates[n]
        /\ \A n \in 1..Len(contracts_candidates) :
               contracts_dir = contracts_candidates[n] =>
                   \A m \in 1..(n - 1) : ~Exists(tree, contracts_candidates[m])
        /\ contracts_dir = "None" =>
               /\ db_tables = <<>> /\ ts_interfaces = <<>> /\ api_endpoints = <<>>
               /\ \A k \in 1..Len(issues) : StageRank(issues[k].category) # 2
               /\ pc = "done" =>
                      /\ \E listing \in Listings(tree, frontend_dirs) :
                             frontend_calls = ScanFrontendDirs([tree EXCEPT !.files = listing], 1)
                      /\ \E listing \in Listings(tree, backend_dirs) :
                             backend_routes = ScanBackendDirs([tree EXCEPT !.files = listing], 1)
                      /\ Len(RouteMismatchIssues) = Len(UnmatchedCalls)

\* a finished run in a tree where two candidates exist and the contract
\* files are in the lower-ranked one: the higher-ranked one was chosen
C20_Witness ==
    /\ pc = "done"
    /\ tree.contracts_only = ""
    /\ Cardinality(ExistingCandidates) >= 2
    /\ contracts_dir = "contracts"
    /\ Exists(tree, "src/contracts/database.sql")
    /\ Cardinality(MissingReports("database.sql")) = 1

\* a finished run without any candidate directory: nothing extracted from
\* contracts, the sources scanned and an unmatched call reported
C20_NoCandidate ==
    /\ pc = "done"
    /\ tree.contracts_only = ""
    /\ contracts_dir = "None"
    /\ frontend_calls # <<>>
    /\ backend_routes # <<>>
    /\ Len(RouteMismatchIssues) >= 1

\* the frontend files of the tree that the scanner reads
ScannedFrontendFiles ==
    {n \in 1..Len(tree.files) :
        /\ tree.files[n].readable
        /\ \E d \in 1..Len(frontend_dirs) : startswith(tree.files[n].path, frontend_dirs[d] \o "/")
        /\ (endswith(tree.files[n].path, ".ts") \/ endswith(tree.files[n].path, ".tsx"))}

\* the occurrences of call form k in a text, as the matches of the form
OccurrencesOf(k, text) ==
    {FrontendMatchAt(k, text, i) : i \in {q \in 1..Len(text) : FrontendMatchAt(k, text, q).ok}}

\* a call site recorded for the file at path with the given url
RecordedCall(path, url) ==
    \E c \in 1..Len(frontend_calls) :
        frontend_calls[c].file = path /\ frontend_calls[c].url = url

\* C21: the frontend scanner recognizes all four call forms.  Once the
\* frontend has been scanned, every occurrence in a scanned file of
\* fetch("<path>"), axios.<verb>("<path>"), api.<method>("<path>") or
\* ENDPOINTS.<resource>.<name> has a call site in frontend_calls: for the
\* three literal forms one with the literal path, for a reference one that
\* carries the referenced name.
C21_FourCallForms ==
    PastStage("scan_frontend_calls") =>
        \A n \in ScannedFrontendFiles :
            /\ \A k \in 1..3 : \A m \in OccurrencesOf(k, tree.files[n].text) :
                   RecordedCall(tree.files[n].path, m.g)
            /\ \A m \in OccurrencesOf(4, tree.files[n].text) :
                   \/ RecordedCall(tree.files[n].path, m.g)
                   \/ \E c \in 1..Len(frontend_calls) :
                          /\ frontend_calls[c].file = tree.files[n].path
                          /\ Contains(frontend_calls[c].url, "ENDPOINTS.")

\* the stripped lines of a column list
BlockLines(block) == LET ls == split(block, "\n") IN [k \in 1..Len(ls) |-> strip(ls[k])]

\* a constraint clause: primary key, foreign key, check or named constraint,
\* in any letter case
IsConstraintClause(line) ==
    \E kw \in {"PRIMARY KEY", "FOREIGN KEY", "CHECK", "CONSTRAINT"} : startswith(Upper(line), kw)

\* the positions of the lines of a column list that define a column
ColumnLines(lines) ==
    {k \in 1..Len(lines) :
        lines[k] # "" /\ ~startswith(lines[k], "--") /\ ~IsConstraintClause(lines[k])}

\* the first and the second word token of a line
FirstToken(line) == SubSeq(line, 1, SpanEnd(line, 1, WordChars) - 1)

SecondToken(line) ==
    LET b == SpanEnd(line, SpanEnd(line, 1, WordChars), SpaceChars)
    IN  SubSeq(line, b, SpanEnd(line, b, WordChars) - 1)

\* the declarations of database.sql that are the last one of their table
LastDeclarations ==
    LET ms == TableMatches(FileText(tree, contracts_dir \o "/database.sql"))
    IN  {ms[k] : k \in {j \in 1..Len(ms) : \A i \in (j + 1)..Len(ms) : ms[i].g1 # ms[j].g1}}

\* C22: schema extractor line classification.  For every table declaration
\* of database.sql, a constraint clause of its column list (in any letter
\* case), a comment line and a blank line yield no column; every other line
\* yields exactly one column, named by the line's first word token, typed by
\* its second, and nullable iff the line holds no NOT NULL marker.
C22_LineClassification ==
    (PastStage("parse_database_sql") /\ Extractable("database.sql")) =>
        \A m \in LastDeclarations :
            LET lines == BlockLines(m.g2)
                cols == DictGet(db_tables, m.g1)
            IN  /\ DictHas(db_tables, m.g1)
                /\ Len(cols) = Cardinality(ColumnLines(lines))
                /\ \A k \in ColumnLines(lines) :
                       /\ DictHas(cols, FirstToken(lines[k]))
                       /\ DictGet(cols, FirstToken(lines[k])) =
                              [type |-> Upper(SecondToken(lines[k])),
                               nullable |-> ~Contains(Upper(lines[k]), "NOT NULL")]

\* the position of the brace that closes the one opened at position open
ClosingBrace(s, open) ==
    LET opens == {p \in (open + 1)..Len(s) : Ch(s, p) = "{"}
        closes == {p \in (open + 1)..Len(s) : Ch(s, p) = "}"}
    IN  MinPos({e \in closes :
            Cardinality({p \in opens : p < e}) = Cardinality({p \in closes : p < e})})

\* the interface blocks of a text: the name and the text between the braces
InterfaceBlocks(s) ==
    LET heads == {i \in 1..Len(s) : StartsWithAt(s, i, "interface ")}
        open(i) == FindFrom(s, i, "{")
    IN  {[name |-> strip(SubSeq(s, i + Len("interface "), open(i) - 1)),
          at |-> i,
          body |-> SubSeq(s, open(i) + 1, ClosingBrace(s, open(i)) - 1)] :
            i \in {h \in heads : open(h) # 0 /\ ClosingBrace(s, open(h)) # 0}}

\* the number of braces left open by the lines before line k
RECURSIVE DepthBefore(_, _)
DepthBefore(lines, k) ==
    IF k <= 1 THEN 0
    ELSE DepthBefore(lines, k - 1)
             + Cardinality({p \in 1..Len(lines[k - 1]) : Ch(lines[k - 1], p) = "{"})
             - Cardinality({p \in 1..Len(lines[k - 1]) : Ch(lines[k - 1], p) = "}"})

\* the positions of the field lines of a block: the lines of the block
\* itself, blank lines and comment lines left out
FieldLines(lines) ==
    {k \in 1..Len(lines) :
        lines[k] # "" /\ ~startswith(lines[k], "//") /\ DepthBefore(lines, k) = 0}

\* the field line carries the optional marker after its name
HasOptionalMarker(line) == Ch(line, SpanEnd(line, 1, WordChars)) = "?"

\* C23: interface extractor completeness.  For every interface block of
\* types.ts (the last one of its name), the extracted interface holds exactly
\* the fields named by the field lines of the block, those that follow a
\* field with a nested object type included, and each field is optional iff
\* its line (the last one of that name) carries the marker ?.
C23_InterfaceCompleteness ==
    (PastStage("parse_types_ts") /\ Extractable("types.ts")) =>
        LET blocks == InterfaceBlocks(FileText(tree, contracts_dir \o "/types.ts"))
        IN  \A b \in {x \in blocks : \A y \in blocks : y.name = x.name => y.at <= x.at} :
                LET lines == BlockLines(b.body)
                    fields == DictGet(ts_interfaces, b.name)
                IN  /\ DictHas(ts_interfaces, b.name)
                    /\ {fields[n].key : n \in 1..Len(fields)}
                           = {FirstToken(lines[k]) : k \in FieldLines(lines)}
                    /\ \A k \in FieldLines(lines) :
                           (\A j \in FieldLines(lines) :
                                FirstToken(lines[j]) = FirstToken(lines[k]) => j <= k)
                           => DictGet(fields, FirstToken(lines[k])).optional
                                  = HasOptionalMarker(lines[k])

\* the textual call occurrences of a text, each identified by the position
\* at which it ends, whichever of the four forms it satisfies
OccurrenceEnds(text) ==
    UNION {{m.end : m \in OccurrencesOf(k, text)} : k \in 1..NumFrontendPatterns}

\* the positions in frontend_calls of the calls recorded for a file
CallsRecordedFor(path) == {c \in 1..Len(frontend_calls) : frontend_calls[c].file = path}

\* the positions in issues of the Route Mismatch issues of a file
RouteMismatchesOf(path) ==
    {k \in 1..Len(issues) : issues[k].category = "Route Mismatch" /\ issues[k].file = path}

\* C24: each textual call occurrence of a frontend file is recorded at most
\* once, also when it satisfies several scan patterns: a scanned file has no
\* more entries in frontend_calls, and after reconciliation no more Route
\* Mismatch warnings, than it has call occurrences.
C24_RecordedOnce ==
    \A n \in ScannedFrontendFiles :
        LET occurrences == Cardinality(OccurrenceEnds(tree.files[n].text))
        IN  /\ PastStage("scan_frontend_calls") =>
                   Cardinality(CallsRecordedFor(tree.files[n].path)) <= occurrences
            /\ PastStage("compare_frontend_to_backend") =>
                   Cardinality(RouteMismatchesOf(tree.files[n].path)) <= occurrences

\* the routes whose normalized path is that of call n
RoutesMatching(n) ==
    {r \in 1..Len(backend_routes) : NormalizeBackendPath(backend_routes[r].path) = CallPath(n)}

\* the scanned routes, each recorded under the given method instead of its own
RoutesWithMethod(method) ==
    [r \in 1..Len(backend_routes) |-> [backend_routes[r] EXCEPT !.method = method]]

\* C25: route matching is by normalized path only.  After reconciliation a
\* call has no Route Mismatch warning whenever some scanned route, of any
\* method and from any backend file, has the call's normalized path; and the
\* Route Mismatch warnings are those the same routes give under any other
\* method.
C25_PathOnlyMatching ==
    PastStage("compare_frontend_to_backend") =>
        /\ \A n \in 1..Len(frontend_calls) :
               RoutesMatching(n) # {} =>
                   RouteWarningsFor(CallPath(n), frontend_calls[n].file) = {}
        /\ \A method \in {Upper(RouteMethods[k]) : k \in 1..Len(RouteMethods)} :
               RouteMismatchIssues
                   = compare_frontend_to_backend(frontend_calls, RoutesWithMethod(method),
                                                 api_endpoints, 1)

\* a finished run with a call matched only by routes that are not GET routes
\* and that no endpoint template matches
C25_Witness ==
    /\ pc = "done"
    /\ \E n \in 1..Len(frontend_calls) :
           /\ startswith(CallPath(n), "/api")
           /\ RoutesMatching(n) # {}
           /\ \A r \in RoutesMatching(n) : backend_routes[r].method # "GET"
           /\ ~DictHas(api_endpoints, CallPath(n))
           /\ RouteWarningsFor(CallPath(n), frontend_calls[n].file) = {}

\* the default candidate of a table name: one trailing s removed, title-cased
DefaultCandidate(name) == title(Singular(name))

\* C26: pluralization stripping removes exactly one trailing s.  For a table
\* outside the built-in mapping the default candidate is the name without
\* its final s (glass gives Glas), title-cased, and the name itself,
\* title-cased, when it does not end in s: a Type Sync warning suggests
\* creating that interface, and no such warning is emitted when it is declared.
C26_SinglePluralStripped ==
    PastStage("compare_db_to_ts") =>
        \A t \in 1..Len(db_tables) :
            ~DictHas(table_to_interface, db_tables[t].key) =>
                /\ \A k \in TypeSyncFor(t) :
                       issues[k].suggestion = "Create interface '"
                           \o DefaultCandidate(db_tables[t].key) \o "' in types.ts"
                /\ DictHas(ts_interfaces, DefaultCandidate(db_tables[t].key)) =>
                       TypeSyncFor(t) = {}

\* the positions of the issues the schema-interface comparison can add
SchemaIssuePositions ==
    {n \in 1..Len(issues) :
        issues[n].category \in {"Type Sync", "Field Mismatch", "Missing Field"}}

\* the fields of the interface of table t that are no column of the table,
\* neither under their own name nor as the camelCase form of a column
FieldsWithoutColumn(t) ==
    {FieldsOf(t)[f].key : f \in 1..Len(FieldsOf(t))}
        \ UNION {{ColumnName(t, c), snake_to_camel(ColumnName(t, c))} :
                    c \in 1..Len(db_tables[t].value)}

\* the declared interfaces that are a candidate of no table
InterfacesWithoutTable ==
    {ts_interfaces[i].key : i \in 1..Len(ts_interfaces)}
        \ UNION {{Variations(db_tables[t].key)[v] : v \in 1..Len(Variations(db_tables[t].key))} :
                    t \in 1..Len(db_tables)}

\* the issue quotes the name
Quotes(n, name) ==
    \/ Contains(issues[n].message, "'" \o name \o "'")
    \/ Contains(issues[n].suggestion, "'" \o name \o "'")

\* C27: the schema-interface comparison is one-directional.  Every issue it
\* adds is about a table without interface or about a column that the
\* table's interface does not declare under its exact name, one issue each;
\* no issue quotes a field that is no column or an interface that belongs to
\* no table; and a column declared under both its exact name and its
\* camelCase form has no issue.
C27_OneDirectional ==
    PastStage("compare_db_to_ts") =>
        /\ \A n \in ColumnIssuePositions :
               \E t \in ComparedTables : \E c \in 1..Len(db_tables[t].value) :
                   ~HasExact(t, c) /\ n \in IssuesForColumn(t, c)
        /\ Cardinality(SchemaIssuePositions)
               = Cardinality(UncoveredTables) + Cardinality(UnmatchedColumns)
        /\ \A t \in ComparedTables : \A name \in FieldsWithoutColumn(t) :
               \A n \in SchemaIssuePositions : ~Quotes(n, name)
        /\ \A name \in InterfacesWithoutTable :
               \A n \in SchemaIssuePositions : ~Quotes(n, name)
        /\ \A t \in ComparedTables : \A c \in 1..Len(db_tables[t].value) :
               (HasExact(t, c) /\ HasCamel(t, c)) => IssuesForColumn(t, c) = {}

\* a finished run whose interface has a field without column and a column
\* under both names, beside an interface without table
C27_Witness ==
    /\ pc = "done"
    /\ InterfacesWithoutTable # {}
    /\ \E t \in ComparedTables :
           /\ FieldsWithoutColumn(t) # {}
           /\ \E c \in 1..Len(db_tables[t].value) :
                  /\ ColumnName(t, c) # snake_to_camel(ColumnName(t, c))
                  /\ HasExact(t, c) /\ HasCamel(t, c)
                  /\ IssuesForColumn(t, c) = {}

\* the QA run has ended: main exited, or an exception ended the process
QaEnded == qa_pc \in {"done", "aborted"}

HasBlockingFailure ==
    \E k \in 1..Len(results) : results[k].status = "FAIL" /\ results[k].blocking

\* every FAIL result is blocking, every WARN or SKIP result is not, and the
\* performance stage never fails
BlockingByStatus ==
    \A k \in 1..Len(results) :
        /\ results[k].status = "FAIL" => results[k].blocking
        /\ results[k].status \in {"WARN", "SKIP"} => ~results[k].blocking
        /\ results[k].name = "Performance" => results[k].status # "FAIL"

\* C28 as stated: the QA runner exits with status 1 iff some executed stage
\* returned a blocking FAIL, and with 0 otherwise; every FAIL is blocking,
\* every WARN or SKIP is not, and the performance stage never fails.
C28_QaVerdict ==
    /\ BlockingByStatus
    /\ QaEnded =>
           /\ qa_exit_status \in {0, 1}
           /\ qa_exit_status = 1 <=> HasBlockingFailure

\* C28, amended: a run that passed the prerequisite check and reached the
\* end of main exits with status 1 iff some executed stage returned a
\* blocking FAIL, and with 0 otherwise (also when no stage was selected).
\* A run on a project without package.json exits with status 1 before any
\* stage has run, and a run ended by an exception exits with status 1, both
\* without a blocking FAIL among the results.  Every FAIL is blocking, every
\* WARN or SKIP is not, and the performance stage never fails.
C28_QaVerdictAmended ==
    /\ BlockingByStatus
    /\ (qa_pc = "done" /\ project.package_json) =>
           /\ qa_exit_status \in {0, 1}
           /\ qa_exit_status = 1 <=> HasBlockingFailure
           /\ stages_to_run \cap AllStages = {} => (results = <<>> /\ qa_exit_status = 0)
    /\ (qa_pc = "done" /\ ~project.package_json) =>
           /\ qa_exit_status = 1
           /\ results = <<>> /\ commands_run = <<>> /\ qa_report = <<>>
    /\ qa_pc = "aborted" => (qa_exit_status = 1 /\ ~HasBlockingFailure)

\* a run that ended with a blocking FAIL beside a WARN and a SKIP
C28_Witness ==
    /\ qa_pc = "done"
    /\ project.package_json
    /\ HasBlockingFailure
    /\ \E k \in 1..Len(results) : results[k].status = "WARN"
    /\ \E k \in 1..Len(results) : results[k].status = "SKIP"
    /\ qa_exit_status = 1

\* the stages the command line selects: those --only names, otherwise all
\* but the skipped ones
Selected ==
    IF args.only # "None"
    THEN {st \in AllStages : \E k \in 1..Len(split(args.only, ",")) :
              Lower(split(args.only, ",")[k]) = st}
    ELSE {st \in AllStages : ~(st = "e2e" /\ args.skip_e2e) /\ ~(st = "perf" /\ args.skip_perf)}

\* the name of the StageResult of a stage
ResultName(st) ==
    CASE st = "unit" -> "Unit Tests"
      [] st = "integration" -> "Integration Tests"
      [] st = "e2e" -> "E2E Tests"
      [] st = "a11y" -> "Accessibility"
      [] st = "perf" -> "Performance"

\* the result names of the selected stages, in the fixed order
RECURSIVE ExpectedNamesFrom(_)
ExpectedNamesFrom(k) ==
    IF k > Len(StageOrder) THEN <<>>
    ELSE (IF StageOrder[k] \in Selected THEN <<ResultName(StageOrder[k])>> ELSE <<>>)
             \o ExpectedNamesFrom(k + 1)

ExpectedNames == ExpectedNamesFrom(1)

ResultNames == [k \in 1..Len(results) |-> results[k].name]

\* C29: stage ordering.  On a project that passes the prerequisite check,
\* whatever the selection: the results are at every moment a prefix of the
\* selected stages in the order unit, integration, e2e, a11y, perf; when the
\* run has ended every selected stage has run exactly once, whatever a stage
\* returned and whether a command failed, timed out or an exception occurred;
\* and the report has been generated from the complete results before exit.
C29_StageOrdering ==
    project.package_json =>
        /\ Len(results) <= Len(ExpectedNames)
        /\ ResultNames = SubSeq(ExpectedNames, 1, Len(results))
        /\ qa_report # <<>> => ResultNames = ExpectedNames
        /\ QaEnded =>
               /\ ResultNames = ExpectedNames
               /\ qa_report = generate_report(results)
        /\ (qa_exit_status # -1) => qa_report # <<>>

\* the unit stage has run: its result is the first one
UnitStageReturned ==
    /\ "unit" \in stages_to_run
    /\ qa_pc \notin {"main", "unit", "raise", "aborted"}

\* the unit test commands run by the stage: the first ones of commands_run
UnitCommandsRun ==
    SubSeq(commands_run, 1,
           MaxPos({k \in 1..Len(commands_run) :
                       k <= Len(UnitCommands) /\ commands_run[k] = UnitCommands[k]}))

\* C30: unit-test coverage threshold.  The unit stage tries its commands in
\* listed order until one exits 0.  Its result is FAIL and blocking
\* when no command succeeded (all were tried); otherwise WARN and
\* non-blocking when the coverage report gives a line coverage from 0 up to
\* but excluding 80, and PASS when it gives 80 or more or when there is no
\* coverage report to read.
C30_CoverageThreshold ==
    /\ ("unit" \in stages_to_run /\ qa_pc \notin {"main", "unit"}) =>
           /\ UnitCommandsRun = SubSeq(UnitCommands, 1, Len(UnitCommandsRun))
           /\ Len(UnitCommandsRun) >= 1
    /\ UnitStageReturned =>
           LET r == results[1]
               file == project.coverage
           IN  /\ r.name = "Unit Tests"
               /\ r.status \in {"PASS", "WARN", "FAIL"}
               /\ r.status = "FAIL" =>
                      (r.blocking /\ UnitCommandsRun = UnitCommands)
               /\ r.status = "WARN" => ~r.blocking
               /\ (r.status # "FAIL" /\ file.state = "pct" /\ file.n < CoverageThreshold) =>
                      r.status = "WARN"
               /\ (r.status # "FAIL" /\ file.state = "pct" /\ file.n >= CoverageThreshold) =>
                      r.status = "PASS"
               /\ (r.status # "FAIL" /\ file.state \in {"absent", "garbage"}) =>
                      r.status = "PASS"

====
